---- MODULE Spec2Model ----
\* A model of the sbi crate (repnop/sbi): the ecall transport, the SbiError
\* classification, the selector bitmasks, RestrictedRange, the CPPC register
\* accessors, the reset, hart state, PMU, timer and IPI wrappers, and a
\* firmware counter that is read in two halves.
\*
\* Machine words are modelled at their real width.  A word is a sequence of
\* hexadecimal digits, most significant first: a u32 has 8 digits, a u64 has
\* 16, a usize/isize has xlen/4.  The arithmetic of the code (wrapping
\* addition, comparison, shifts, masks, `as` casts) is computed digit by digit.
EXTENDS Integers, Sequences, FiniteSets, TLC

VARIABLES
    xlen,             \* target_arch: 32 (riscv32) or 64 (riscv64)
    overflow_checks,  \* build profile: arithmetic overflow panics (debug) or wraps (release)
    op,               \* the operation last executed, with its inputs
    calls,            \* the traps issued by that operation, in order
    ret,              \* what that operation returned to its caller
    mask,             \* the selector bitmask being built
    rr,               \* the RestrictedRange value that currently exists
    counter,          \* firmware: the Reference Performance Counter, a u64
    reading,          \* the caller's read of that counter, half by half
    ctx               \* per execution context (hart): its mask, registers and result

vars == <<xlen, overflow_checks, op, calls, ret, mask, rr, counter, reading, ctx>>

-----------------------------------------------------------------------------
\* Words

\* hexadecimal digits of a usize / isize
W == xlen \div 4

\* usize::BITS
WORD_BITS == xlen

\* the word of n digits whose value is 0
Zero(n) == [i \in 1..n |-> 0]

\* the word of n digits whose value is the small number k (k < 16^4)
FromNat(k, n) == [i \in 1..n |-> IF n - i >= 4 THEN 0 ELSE (k \div (16 ^ (n - i))) % 16]

\* `a as uN` for a wider or equal a: keep the low n digits
Truncate(a, n) == [i \in 1..n |-> a[Len(a) - n + i]]

\* `a as uN` for a narrower a: zero extension
ZeroExtend(a, n) == [i \in 1..n |-> IF i <= n - Len(a) THEN 0 ELSE a[i - (n - Len(a))]]

\* `a as uN` between unsigned integer types
Cast(a, n) == IF n <= Len(a) THEN Truncate(a, n) ELSE ZeroExtend(a, n)

\* a hexadecimal literal, digits most significant first, as a word of n digits
Hex(s, n) == Cast(s, n)

\* a < b, for words of the same width (unsigned)
Lt(a, b) == \E i \in 1..Len(a) : a[i] < b[i] /\ \A j \in 1..(i - 1) : a[j] = b[j]

\* a <= b
Le(a, b) == ~Lt(b, a)

\* the carry into digit i of a + b
RECURSIVE CarryIn(_, _, _)
CarryIn(a, b, i) ==
    IF i = Len(a) THEN 0 ELSE (a[i + 1] + b[i + 1] + CarryIn(a, b, i + 1)) \div 16

\* a + b modulo 16^Len(a)
AddWrap(a, b) == [i \in 1..Len(a) |-> (a[i] + b[i] + CarryIn(a, b, i)) % 16]

\* a + b does not fit in the width of a
AddOverflows(a, b) == a[1] + b[1] + CarryIn(a, b, 1) >= 16

\* the borrow out of digit i + 1 of a - b
RECURSIVE BorrowIn(_, _, _)
BorrowIn(a, b, i) ==
    IF i = Len(a) THEN 0
    ELSE IF a[i + 1] - b[i + 1] - BorrowIn(a, b, i + 1) < 0 THEN 1 ELSE 0

\* a - b modulo 16^Len(a)
SubWrap(a, b) == [i \in 1..Len(a) |-> (16 + a[i] - b[i] - BorrowIn(a, b, i)) % 16]

\* the value of a word known to be below 256
SmallNat(a) == 16 * a[Len(a) - 1] + a[Len(a)]

\* bit k of the digit x
BitOf(x, k) == (x \div (2 ^ k)) % 2

OrDigit(x, y) ==
    LET b(k) == IF BitOf(x, k) = 1 \/ BitOf(y, k) = 1 THEN 2 ^ k ELSE 0
    IN  b(0) + b(1) + b(2) + b(3)

AndDigit(x, y) ==
    LET b(k) == IF BitOf(x, k) = 1 /\ BitOf(y, k) = 1 THEN 2 ^ k ELSE 0
    IN  b(0) + b(1) + b(2) + b(3)

\* a | b and a & b
BitOr(a, b) == [i \in 1..Len(a) |-> OrDigit(a[i], b[i])]
BitAnd(a, b) == [i \in 1..Len(a) |-> AndDigit(a[i], b[i])]

\* 1 << k, in n digits (k < 4 * n)
ShlOne(k, n) == [i \in 1..n |-> IF n - i = k \div 4 THEN 2 ^ (k % 4) ELSE 0]

\* a >> (4 * d) and a << (4 * d)
ShrDigits(a, d) == [i \in 1..Len(a) |-> IF i <= d THEN 0 ELSE a[i - d]]
ShlDigits(a, d) == [i \in 1..Len(a) |-> IF i + d <= Len(a) THEN a[i + d] ELSE 0]

\* bit k of the word a is set
BitSet(a, k) == BitOf(a[Len(a) - (k \div 4)], k % 4) = 1

\* the all-ones word, usize::MAX
MaxWord(n) == [i \in 1..n |-> 15]

\* the isize -k, two's complement, for small k
Neg(k, n) == SubWrap(Zero(n), FromNat(k, n))

\* isize::is_negative
is_negative(n) == n[1] >= 8

-----------------------------------------------------------------------------
\* SbiError: Option<NonZeroIsize>, None is <<>> and Some(n) is <<n>>

None == <<>>
Some(n) == <<n>>

\* the isize -1 .. -9 of the target
Codes32 == [k \in 1..9 |-> Neg(k, 8)]
Codes64 == [k \in 1..9 |-> Neg(k, 16)]
Code(k) == IF xlen = 32 THEN Codes32[k] ELSE Codes64[k]

FAILED == Some(Code(1))
NOT_SUPPORTED == Some(Code(2))
INVALID_PARAMETER == Some(Code(3))
DENIED == Some(Code(4))
INVALID_ADDRESS == Some(Code(5))
ALREADY_AVAILABLE == Some(Code(6))
ALREADY_STARTED == Some(Code(7))
ALREADY_STOPPED == Some(Code(8))
SHARED_MEMORY_UNAVAILABLE == Some(Code(9))

\* the named kind of the documented code -k
NamedKind(k) ==
    CASE k = 1 -> FAILED
      [] k = 2 -> NOT_SUPPORTED
      [] k = 3 -> INVALID_PARAMETER
      [] k = 4 -> DENIED
      [] k = 5 -> INVALID_ADDRESS
      [] k = 6 -> ALREADY_AVAILABLE
      [] k = 7 -> ALREADY_STARTED
      [] k = 8 -> ALREADY_STOPPED
      [] k = 9 -> SHARED_MEMORY_UNAVAILABLE

\* a classification that keeps the code of the nine documented kinds only
SbiError_new_closed(n) ==
    IF \E k \in 1..9 : n = Code(k) THEN Some(n) ELSE None

\* a classification that tags every failure as FAILED
SbiError_new_failed(n) == IF is_negative(n) THEN Some(Code(1)) ELSE None

\* a classification that keeps the word of every failing status
SbiError_new_raw(n) == Some(n)

\* n if n.is_negative() => Self(Some(n)), _ => Self(None)
SbiError_new(n) == IF is_negative(n) THEN Some(n) ELSE None

-----------------------------------------------------------------------------
\* Results

Ok(v) == [tag |-> "Ok", val |-> v]
Err(e) == [tag |-> "Err", val |-> e]
Panic == [tag |-> "Panic", val |-> <<>>]
NoRet == [tag |-> "None", val |-> <<>>]

\* the state of the variables an operation leaves alone
NoMask == [kind |-> "none", base |-> <<>>, mask |-> <<>>]
NoValue == [min |-> <<>>, max |-> <<>>, v |-> <<>>]
NoReading == [step |-> 0, calls |-> <<>>, low |-> <<>>, high |-> <<>>,
              at_low |-> <<>>, at_high |-> <<>>]

\* the execution contexts (harts) that run the caller's code
Contexts == {1, 2}

\* a context that has executed nothing
Idle == [pc |-> "run", mask |-> NoMask, calls |-> <<>>, ret |-> NoRet]

-----------------------------------------------------------------------------
\* Transport

\* a trap with the two IDs in each other's register
Trap_swapped(args, extension_id, function_id, error, value) ==
    [args |-> args, a6 |-> extension_id, a7 |-> function_id,
     a0 |-> error, a1 |-> value]

\* the trap: argument registers a0.. (args[i] is what a_(i-1) holds, a register
\* beyond Len(args) is not set), function ID in a6, extension ID in a7;
\* firmware leaves status in a0 and value in a1
Trap(args, extension_id, function_id, error, value) ==
    [args |-> args, a6 |-> function_id, a7 |-> extension_id,
     a0 |-> error, a1 |-> value]

\* a decoding that takes every status that is not negative as success
ecall_result_nonnegative(error, value) ==
    IF ~is_negative(error) THEN Ok(value) ELSE Err(SbiError_new(error))

\* match error { 0 => Ok(value), e => Err(SbiError::new(e)) }
ecall_result(error, value) ==
    IF error = Zero(W) THEN Ok(value) ELSE Err(SbiError_new(error))

\* status words firmware may leave in a0, as isize of n digits:
\* 0, 1, isize::MAX, -1 .. -10, -1000, isize::MIN
StatusWords(n) ==
    {Zero(n), FromNat(1, n), [i \in 1..n |-> IF i = 1 THEN 7 ELSE 15]}
    \cup {Neg(k, n) : k \in 1..10}
    \cup {Neg(1000, n), [i \in 1..n |-> IF i = 1 THEN 8 ELSE 0]}

StatusSamples32 == StatusWords(8)
StatusSamples64 == StatusWords(16)
StatusSamples == IF xlen = 32 THEN StatusSamples32 ELSE StatusSamples64

\* value words firmware may leave in a1
ValueSamples32 == {Zero(8), Hex(<<2, 10>>, 8)}
ValueSamples64 == {Zero(16), Hex(<<2, 10>>, 16)}
ValueSamples == IF xlen = 32 THEN ValueSamples32 ELSE ValueSamples64

\* the argument words a caller passes: argument i is i + 1
ArgSamples32 == {[i \in 1..6 |-> FromNat(i, 8)]}
ArgSamples64 == {[i \in 1..6 |-> FromNat(i, 16)]}
ArgSamples == IF xlen = 32 THEN ArgSamples32 ELSE ArgSamples64

\* (extension ID, function ID) of a caller
TargetSamples == {<<Hex(<<1, 0>>, W), FromNat(0, W)>>}

\* a transport that traps a second time when firmware answers with an error
ecall_retry(n, a, extension_id, function_id) ==
    \E error \in StatusSamples, value \in ValueSamples :
        LET trap == Trap(SubSeq(a, 1, n), extension_id, function_id, error, value) IN
        /\ op' = [name |-> "ecall", n |-> n, args |-> SubSeq(a, 1, n),
                  extension_id |-> extension_id, function_id |-> function_id]
        /\ calls' = IF error = Zero(W) THEN <<trap>> ELSE <<trap, trap>>
        /\ ret' = ecall_result(error, value)
        /\ UNCHANGED <<xlen, overflow_checks, mask, rr, counter, reading, ctx>>

\* ecallN(arg0, .., extension_id, function_id): one ecall instruction
ecall(n, a, extension_id, function_id) ==
    \E error \in StatusSamples, value \in ValueSamples :
        /\ op' = [name |-> "ecall", n |-> n, args |-> SubSeq(a, 1, n),
                  extension_id |-> extension_id, function_id |-> function_id]
        /\ calls' = <<Trap(SubSeq(a, 1, n), extension_id, function_id, error, value)>>
        /\ ret' = ecall_result(error, value)
        /\ UNCHANGED <<xlen, overflow_checks, mask, rr, counter, reading, ctx>>

\* impl Display for SbiError: the text fmt writes
SbiError_fmt(self) ==
    CASE self = ALREADY_AVAILABLE -> "resource is already available"
      [] self = DENIED -> "SBI implementation denied execution"
      [] self = FAILED -> "call to SBI failed"
      [] self = INVALID_ADDRESS -> "invalid address passed"
      [] self = INVALID_PARAMETER -> "invalid parameter passed"
      [] self = NOT_SUPPORTED -> "SBI call not implemented or functionality not available"
      [] self = ALREADY_STARTED -> "resource was already started"
      [] self = ALREADY_STOPPED -> "resource was already stopped"
      [] OTHER -> "unknown error"

\* write!(f, "{}", e) for the error e a call has just returned
CallDisplay ==
    /\ ret.tag = "Err"
    /\ op' = [name |-> "fmt", self |-> ret.val]
    /\ ret' = Ok(SbiError_fmt(ret.val))
    /\ calls' = <<>>
    /\ UNCHANGED <<xlen, overflow_checks, mask, rr, counter, reading, ctx>>

ecall0 == \E a \in ArgSamples, t \in TargetSamples : ecall(0, a, t[1], t[2])
ecall1 == \E a \in ArgSamples, t \in TargetSamples : ecall(1, a, t[1], t[2])
ecall2 == \E a \in ArgSamples, t \in TargetSamples : ecall(2, a, t[1], t[2])
ecall3 == \E a \in ArgSamples, t \in TargetSamples : ecall(3, a, t[1], t[2])
ecall4 == \E a \in ArgSamples, t \in TargetSamples : ecall(4, a, t[1], t[2])
ecall5 == \E a \in ArgSamples, t \in TargetSamples : ecall(5, a, t[1], t[2])
ecall6 == \E a \in ArgSamples, t \in TargetSamples : ecall(6, a, t[1], t[2])

-----------------------------------------------------------------------------
\* Selector bitmasks: HartMask and CounterIndexMask, { base: usize, mask: usize }

HartMask_new(base) == [kind |-> "HartMask", base |-> base, mask |-> Zero(W)]

\* a from that selects nothing
HartMask_from_empty(hart_id) == [kind |-> "HartMask", base |-> hart_id, mask |-> Zero(W)]

HartMask_from(hart_id) == [kind |-> "HartMask", base |-> hart_id, mask |-> FromNat(1, W)]

CounterIndexMask_empty == [kind |-> "CounterIndexMask", base |-> Zero(W), mask |-> Zero(W)]

CounterIndexMask_new(base) == [kind |-> "CounterIndexMask", base |-> base, mask |-> Zero(W)]

CounterIndexMask_from(counter_idx) ==
    [kind |-> "CounterIndexMask", base |-> counter_idx, mask |-> FromNat(1, W)]

\* if id >= self.base && id < (self.base + usize::BITS as usize) {
\*     self.mask |= 1 << (id - self.base);
\* }
\* self
\* The sum is evaluated only when id >= self.base.  When it does not fit in a
\* usize it panics in a build with overflow checks and wraps in one without.
\* The result is the returned mask, or Panic.
mask_with(self, id) ==
    IF ~Le(self.base, id) THEN Ok(self)
    ELSE IF overflow_checks /\ AddOverflows(self.base, FromNat(WORD_BITS, W)) THEN Panic
    ELSE IF Lt(id, AddWrap(self.base, FromNat(WORD_BITS, W)))
         THEN Ok([self EXCEPT !.mask = BitOr(self.mask, ShlOne(SmallNat(SubWrap(id, self.base)), W))])
         ELSE Ok(self)

HartMask_with(self, hart_id) == mask_with(self, hart_id)

CounterIndexMask_with(self, counter_idx) == mask_with(self, counter_idx)

\* bases and IDs a caller uses: small ones, ones a word apart, and ones
\* within usize::BITS of usize::MAX
BaseWords(n) == {Zero(n), FromNat(5, n), SubWrap(MaxWord(n), FromNat(3, n))}

IdWords(n) ==
    {Zero(n), FromNat(1, n), FromNat(5, n),
     FromNat(4 * n - 1, n), FromNat(4 * n, n), FromNat(4 * n + 4, n), FromNat(4 * n + 5, n),
     SubWrap(MaxWord(n), FromNat(3, n)), MaxWord(n)}

BaseSamples32 == BaseWords(8)
BaseSamples64 == BaseWords(16)
BaseSamples == IF xlen = 32 THEN BaseSamples32 ELSE BaseSamples64

IdSamples32 == IdWords(8)
IdSamples64 == IdWords(16)
IdSamples == IF xlen = 32 THEN IdSamples32 ELSE IdSamples64

\* a constructor call: the caller holds the new mask
Construct(name, arg, m) ==
    /\ op' = [name |-> name, kind |-> m.kind, arg |-> arg]
    /\ mask' = m
    /\ ret' = Ok(m)
    /\ calls' = <<>>
    /\ UNCHANGED <<xlen, overflow_checks, rr, counter, reading, ctx>>

CallHartMaskNew == \E base \in BaseSamples : Construct("new", base, HartMask_new(base))

CallHartMaskFrom == \E id \in BaseSamples : Construct("from", id, HartMask_from(id))

CallCounterIndexMaskEmpty == Construct("empty", Zero(W), CounterIndexMask_empty)

CallCounterIndexMaskNew ==
    \E base \in BaseSamples : Construct("new", base, CounterIndexMask_new(base))

CallCounterIndexMaskFrom ==
    \E id \in BaseSamples : Construct("from", id, CounterIndexMask_from(id))

\* m = m.with(id): a panic ends the program, the mask is gone
With(r, id) ==
    /\ op' = [name |-> "with", kind |-> mask.kind, self |-> mask, id |-> id]
    /\ ret' = r
    /\ mask' = IF r.tag = "Ok" THEN r.val ELSE NoMask
    /\ calls' = <<>>
    /\ UNCHANGED <<xlen, overflow_checks, rr, counter, reading, ctx>>

CallHartMaskWith ==
    /\ mask.kind = "HartMask"
    /\ \E id \in IdSamples : With(HartMask_with(mask, id), id)

CallCounterIndexMaskWith ==
    /\ mask.kind = "CounterIndexMask"
    /\ \E id \in IdSamples : With(CounterIndexMask_with(mask, id), id)

\* a comparison that looks at the mask word only
HartMask_eq_mask_only(self, other) == self.mask = other.mask

\* #[derive(PartialEq, Eq)] on struct HartMask { base, mask }
HartMask_eq(self, other) == self.base = other.base /\ self.mask = other.mask

\* the masks a caller compares the one it holds with: that mask itself, and
\* the ones the constructors give
EqSamples ==
    {mask} \cup {HartMask_new(base) : base \in BaseSamples}
           \cup {HartMask_from(id) : id \in BaseSamples}

\* self == other
CallHartMaskEq ==
    /\ mask.kind = "HartMask"
    /\ \E other \in EqSamples :
          /\ op' = [name |-> "eq", self |-> mask, other |-> other]
          /\ ret' = Ok(HartMask_eq(mask, other))
          /\ calls' = <<>>
          /\ UNCHANGED <<xlen, overflow_checks, mask, rr, counter, reading, ctx>>

-----------------------------------------------------------------------------
\* Firmware replies (status, value) used by the typed wrappers:
\* success with two values, FAILED, INVALID_PARAMETER and a positive status
ReplyWords(n) ==
    {<<Zero(n), Zero(n)>>, <<Zero(n), Hex(<<2, 10>>, n)>>,
     <<Neg(1, n), Zero(n)>>, <<Neg(3, n), Hex(<<2, 10>>, n)>>,
     <<FromNat(1, n), Zero(n)>>}

ReplySamples32 == ReplyWords(8)
ReplySamples64 == ReplyWords(16)
ReplySamples == IF xlen = 32 THEN ReplySamples32 ELSE ReplySamples64

\* the () that drop leaves
Unit == <<>>

\* .map(drop): an Err passes through
map_drop(r) == IF r.tag = "Ok" THEN Ok(Unit) ELSE r

-----------------------------------------------------------------------------
\* RestrictedRange<MIN, MAX>(u32)

\* a new that checks the upper bound only
RestrictedRange_new_max_only(MIN, MAX, value) ==
    IF Lt(MAX, value) THEN Panic ELSE Ok([min |-> MIN, max |-> MAX, v |-> value])

\* a new that rejects MIN itself
RestrictedRange_new_exclusive(MIN, MAX, value) ==
    IF Le(value, MIN) \/ Lt(MAX, value)
    THEN Panic
    ELSE Ok([min |-> MIN, max |-> MAX, v |-> value])

\* if value < MIN || value > MAX { panic!(..) }  Self(value)
RestrictedRange_new(MIN, MAX, value) ==
    IF Lt(value, MIN) \/ Lt(MAX, value)
    THEN Panic
    ELSE Ok([min |-> MIN, max |-> MAX, v |-> value])

\* impl From<RestrictedRange<MIN, MAX>> for u32
u32_from_RestrictedRange(value) == value.v

\* impl Clone: *self
RestrictedRange_clone(self) == self

\* the instantiations of the crate
RetentiveRange == <<Hex(<<1, 0, 0, 0, 0, 0, 0, 0>>, 8), Hex(<<7, 15, 15, 15, 15, 15, 15, 15>>, 8)>>
NonRetentiveRange == <<Hex(<<9, 0, 0, 0, 0, 0, 0, 0>>, 8), MaxWord(8)>>
SleepRange == <<Hex(<<8, 0, 0, 0, 0, 0, 0, 0>>, 8), MaxWord(8)>>

RangeSamples == {RetentiveRange, NonRetentiveRange, SleepRange}

\* u32 values a caller passes to new: the ends of the three ranges and
\* their neighbours
U32Samples ==
    {Zero(8), Hex(<<15, 15, 15, 15, 15, 15, 15>>, 8),
     RetentiveRange[1], RetentiveRange[2], SleepRange[1],
     Hex(<<8, 15, 15, 15, 15, 15, 15, 15>>, 8), NonRetentiveRange[1], MaxWord(8)}

CallRestrictedRangeNew ==
    \E range \in RangeSamples, value \in U32Samples :
        LET r == RestrictedRange_new(range[1], range[2], value) IN
        /\ op' = [name |-> "RestrictedRange::new", min |-> range[1], max |-> range[2],
                  value |-> value]
        /\ ret' = r
        /\ rr' = IF r.tag = "Ok" THEN r.val ELSE NoValue
        /\ calls' = <<>>
        /\ UNCHANGED <<xlen, overflow_checks, mask, counter, reading, ctx>>

CallU32From ==
    /\ rr # NoValue
    /\ op' = [name |-> "u32::from"]
    /\ ret' = Ok(u32_from_RestrictedRange(rr))
    /\ calls' = <<>>
    /\ UNCHANGED <<xlen, overflow_checks, mask, rr, counter, reading, ctx>>

CallClone ==
    /\ rr # NoValue
    /\ op' = [name |-> "clone"]
    /\ ret' = Ok(RestrictedRange_clone(rr))
    /\ rr' = RestrictedRange_clone(rr)
    /\ calls' = <<>>
    /\ UNCHANGED <<xlen, overflow_checks, mask, counter, reading, ctx>>

\* addresses and opaque words a caller passes
ResumeAddr == Hex(<<8, 0, 2, 0, 0, 0, 0, 0>>, W)
Opaque == Hex(<<2, 10>>, W)

-----------------------------------------------------------------------------
\* System suspend

SUSP_EXTENSION_ID == Hex(<<5, 3, 5, 5, 5, 3, 5, 0>>, W)

\* impl From<SleepType> for u32
u32_from_SleepType(value) ==
    CASE value.variant = "SuspendToRam" -> Zero(8)
      [] value.variant = "PlatformSpecific" -> value.n.v

\* the SleepType values a caller can build from the RestrictedRange it holds
SleepTypes ==
    {[variant |-> "SuspendToRam"]}
    \cup (IF <<rr.min, rr.max>> = SleepRange
          THEN {[variant |-> "PlatformSpecific", n |-> rr]} ELSE {})

\* a wrapper that hands the Ok to its caller
never_ok_returns(r) == r

\* what the caller gets from a call that must not return Ok:
\* match ret { Ok(_) => unreachable!(), Err(e) => Err(e) }
never_ok(r) == IF r.tag = "Ok" THEN Panic ELSE r

system_suspend(sleep_type, resume_addr, opaque) ==
    \E reply \in ReplySamples :
        /\ op' = [name |-> "system_suspend", variant |-> sleep_type.variant]
        /\ calls' = <<Trap(<<Cast(u32_from_SleepType(sleep_type), W), resume_addr, opaque>>,
                           SUSP_EXTENSION_ID, FromNat(0, W), reply[1], reply[2])>>
        /\ ret' = never_ok(ecall_result(reply[1], reply[2]))
        /\ UNCHANGED <<xlen, overflow_checks, mask, rr, counter, reading, ctx>>

CallSystemSuspend ==
    \E sleep_type \in SleepTypes : system_suspend(sleep_type, ResumeAddr, Opaque)

-----------------------------------------------------------------------------
\* Hart state management: hart_suspend

HSM_EXTENSION_ID == Hex(<<4, 8, 5, 3, 4, 13>>, W)

\* SuspendType::to_values: (u32, usize, usize)
to_values(self) ==
    CASE self.variant = "DefaultRetentive" -> <<Zero(8), Zero(W), Zero(W)>>
      [] self.variant = "PlatformSpecificRetentive" -> <<self.n.v, Zero(W), Zero(W)>>
      [] self.variant = "DefaultNonRetentive" ->
            <<Hex(<<8, 0, 0, 0, 0, 0, 0, 0>>, 8), self.resume_address, self.opaque>>
      [] self.variant = "PlatformSpecificNonRetentive" ->
            <<self.value.v, self.resume_address, self.opaque>>

\* the SuspendType values a caller can build from the RestrictedRange it holds
SuspendTypes ==
    {[variant |-> "DefaultRetentive"],
     [variant |-> "DefaultNonRetentive", resume_address |-> ResumeAddr, opaque |-> Opaque]}
    \cup (IF <<rr.min, rr.max>> = RetentiveRange
          THEN {[variant |-> "PlatformSpecificRetentive", n |-> rr]} ELSE {})
    \cup (IF <<rr.min, rr.max>> = NonRetentiveRange
          THEN {[variant |-> "PlatformSpecificNonRetentive", value |-> rr,
                 resume_address |-> ResumeAddr, opaque |-> Opaque]} ELSE {})

hart_suspend(suspend_type) ==
    \E reply \in ReplySamples :
        LET v == to_values(suspend_type) IN
        /\ op' = [name |-> "hart_suspend", variant |-> suspend_type.variant]
        /\ calls' = <<Trap(<<Cast(v[1], W), v[2], v[3]>>,
                           HSM_EXTENSION_ID, FromNat(3, W), reply[1], reply[2])>>
        /\ ret' = map_drop(ecall_result(reply[1], reply[2]))
        /\ UNCHANGED <<xlen, overflow_checks, mask, rr, counter, reading, ctx>>

CallHartSuspend == \E suspend_type \in SuspendTypes : hart_suspend(suspend_type)

-----------------------------------------------------------------------------
\* Collaborative Processor Performance Control

CPPC_EXTENSION_ID == Hex(<<4, 3, 5, 0, 5, 0, 4, 3>>, W)

\* impl CastRegisterValue for u64
u64_cast(from) == Cast(from, 16)

u64_reverse_cast(self) == Cast(self, W)

\* a hi_lo that shifts by 16 bits
u64_hi_lo_shift16(self) ==
    <<Cast(ShrDigits(self, 4), W), Cast(BitAnd(self, Hex(MaxWord(8), 16)), W)>>

\* ((self >> 32) as usize, (self & 0xFFFF_FFFF) as usize)
u64_hi_lo(self) ==
    <<Cast(ShrDigits(self, 8), W), Cast(BitAnd(self, Hex(MaxWord(8), 16)), W)>>

\* impl CastRegisterValue for u32
u32_cast(from) == Cast(from, 8)

u32_reverse_cast(self) == Cast(self, W)

\* a hi_lo that gives the value as both words
u32_hi_lo_copy(self) == <<Cast(self, W), Cast(self, W)>>

\* (0, self as usize)
u32_hi_lo(self) == <<Zero(W), Cast(self, W)>>

\* <R::Width as CastRegisterValue>::cast, reverse_cast and hi_lo
cast(width, from) == IF width = 64 THEN u64_cast(from) ELSE u32_cast(from)

reverse_cast(width, self) ==
    IF width = 64 THEN u64_reverse_cast(self) ELSE u32_reverse_cast(self)

hi_lo(width, self) == IF width = 64 THEN u64_hi_lo(self) ELSE u32_hi_lo(self)

\* .map(<R::Width as CastRegisterValue>::cast): an Err passes through
map_cast(r, width) == IF r.tag = "Ok" THEN Ok(cast(width, r.val)) ELSE r

\* the registers: ID, Width, and the Readable and Writable marker traits
HighestPerformance ==
    [name |-> "HighestPerformance", ID |-> Hex(<<0, 0>>, 8),
     readable |-> TRUE, width |-> 32, writable |-> FALSE]

DesiredPerformance ==
    [name |-> "DesiredPerformance", ID |-> Hex(<<0, 5>>, 8),
     readable |-> TRUE, width |-> 32, writable |-> TRUE]

ReferencePerformanceCounter ==
    [name |-> "ReferencePerformanceCounter", ID |-> Hex(<<0, 11>>, 8),
     readable |-> TRUE, width |-> 64, writable |-> FALSE]

TransitionLatency ==
    [name |-> "TransitionLatency", ID |-> Hex(<<8, 0, 0, 0, 0, 0, 0, 0>>, 8),
     readable |-> TRUE, width |-> 32, writable |-> FALSE]

Registers ==
    {HighestPerformance,
     [name |-> "NominalPerformance", ID |-> Hex(<<0, 1>>, 8),
      readable |-> TRUE, width |-> 32, writable |-> FALSE],
     [name |-> "LowestNonlinearPerformance", ID |-> Hex(<<0, 2>>, 8),
      readable |-> TRUE, width |-> 32, writable |-> FALSE],
     [name |-> "LowestPerformance", ID |-> Hex(<<0, 3>>, 8),
      readable |-> TRUE, width |-> 32, writable |-> FALSE],
     [name |-> "GuaranteedPerformance", ID |-> Hex(<<0, 4>>, 8),
      readable |-> TRUE, width |-> 32, writable |-> FALSE],
     DesiredPerformance,
     [name |-> "MinimumPerformance", ID |-> Hex(<<0, 6>>, 8),
      readable |-> TRUE, width |-> 32, writable |-> TRUE],
     [name |-> "MaximumPerformance", ID |-> Hex(<<0, 7>>, 8),
      readable |-> TRUE, width |-> 32, writable |-> TRUE],
     [name |-> "PerformanceReductionTolerance", ID |-> Hex(<<0, 8>>, 8),
      readable |-> TRUE, width |-> 32, writable |-> TRUE],
     [name |-> "TimeWindow", ID |-> Hex(<<0, 9>>, 8),
      readable |-> TRUE, width |-> 32, writable |-> TRUE],
     [name |-> "CounterWraparoundTime", ID |-> Hex(<<0, 10>>, 8),
      readable |-> TRUE, width |-> 64, writable |-> FALSE],
     ReferencePerformanceCounter,
     [name |-> "DeliveredPerformanceCounter", ID |-> Hex(<<0, 12>>, 8),
      readable |-> TRUE, width |-> 64, writable |-> FALSE],
     [name |-> "PerformanceLimited", ID |-> Hex(<<0, 13>>, 8),
      readable |-> TRUE, width |-> 32, writable |-> TRUE],
     [name |-> "CppcEnable", ID |-> Hex(<<0, 14>>, 8),
      readable |-> TRUE, width |-> 32, writable |-> TRUE],
     [name |-> "AutonomousSelectionEnable", ID |-> Hex(<<0, 15>>, 8),
      readable |-> TRUE, width |-> 32, writable |-> TRUE],
     [name |-> "AutonomousAcivityWindow", ID |-> Hex(<<1, 0>>, 8),
      readable |-> TRUE, width |-> 32, writable |-> TRUE],
     [name |-> "EnergyPerformancePreference", ID |-> Hex(<<1, 1>>, 8),
      readable |-> TRUE, width |-> 32, writable |-> TRUE],
     [name |-> "ReferencePerformance", ID |-> Hex(<<1, 2>>, 8),
      readable |-> TRUE, width |-> 32, writable |-> FALSE],
     [name |-> "LowestFrequency", ID |-> Hex(<<1, 3>>, 8),
      readable |-> TRUE, width |-> 32, writable |-> FALSE],
     [name |-> "NominalFrequency", ID |-> Hex(<<1, 4>>, 8),
      readable |-> TRUE, width |-> 32, writable |-> FALSE],
     TransitionLatency}

\* the registers a caller uses: u32 and u64, read-only and writable, and the
\* one whose ID has the top bit set
RegisterSamples ==
    {HighestPerformance, DesiredPerformance, ReferencePerformanceCounter,
     TransitionLatency}

\* replies of firmware to a register read: the value word is any word
Pattern(n) == [i \in 1..n |-> (i + 15 - n) % 16]

ReadReplyWords(n) ==
    {<<Zero(n), Zero(n)>>, <<Zero(n), Pattern(n)>>, <<Zero(n), MaxWord(n)>>,
     <<Neg(2, n), Pattern(n)>>, <<Neg(4, n), Zero(n)>>}

ReadReplySamples32 == ReadReplyWords(8)
ReadReplySamples64 == ReadReplyWords(16)
ReadReplySamples == IF xlen = 32 THEN ReadReplySamples32 ELSE ReadReplySamples64

\* register values a caller writes
WidthSamples32 == {Zero(8), Pattern(8), MaxWord(8)}
WidthSamples64 ==
    {Zero(16), Pattern(16), MaxWord(16), [i \in 1..16 |-> IF i <= 8 THEN 15 ELSE 0]}
WidthSamples(width) == IF width = 64 THEN WidthSamples64 ELSE WidthSamples32

\* unsafe { ecall1(R::ID as usize, EXTENSION_ID, 1) }.map(cast),
\* for the reply firmware gives
read_register_reply(R, reply) ==
    /\ op' = [name |-> "read_register", register |-> R]
    /\ calls' = <<Trap(<<Cast(R.ID, W)>>, CPPC_EXTENSION_ID, FromNat(1, W),
                       reply[1], reply[2])>>
    /\ ret' = map_cast(ecall_result(reply[1], reply[2]), R.width)
    /\ UNCHANGED <<xlen, overflow_checks, mask, rr>>

\* a read_register that fetches the high half itself and joins the halves
read_register_joined(R) ==
    \E reply \in ReadReplySamples, reply_hi \in ReadReplySamples :
        /\ op' = [name |-> "read_register", register |-> R]
        /\ calls' = <<Trap(<<Cast(R.ID, W)>>, CPPC_EXTENSION_ID, FromNat(1, W),
                           reply[1], reply[2]),
                      Trap(<<Cast(R.ID, W)>>, CPPC_EXTENSION_ID, FromNat(2, W),
                           reply_hi[1], reply_hi[2])>>
        /\ ret' = map_cast(ecall_result(reply[1], reply[2]), R.width)
        /\ UNCHANGED <<xlen, overflow_checks, mask, rr, counter, reading, ctx>>

read_register(R) ==
    \E reply \in ReadReplySamples :
        read_register_reply(R, reply) /\ UNCHANGED <<counter, reading, ctx>>

\* a read_register_hi that asks for function 1
read_register_hi_low(R, reply) ==
    /\ op' = [name |-> "read_register_hi", register |-> R]
    /\ calls' = <<Trap(<<Cast(R.ID, W)>>, CPPC_EXTENSION_ID, FromNat(1, W),
                       reply[1], reply[2])>>
    /\ ret' = map_cast(ecall_result(reply[1], reply[2]), R.width)
    /\ UNCHANGED <<xlen, overflow_checks, mask, rr>>

\* unsafe { ecall1(R::ID as usize, EXTENSION_ID, 2) }.map(cast),
\* for the reply firmware gives
read_register_hi_reply(R, reply) ==
    /\ op' = [name |-> "read_register_hi", register |-> R]
    /\ calls' = <<Trap(<<Cast(R.ID, W)>>, CPPC_EXTENSION_ID, FromNat(2, W),
                       reply[1], reply[2])>>
    /\ ret' = map_cast(ecall_result(reply[1], reply[2]), R.width)
    /\ UNCHANGED <<xlen, overflow_checks, mask, rr>>

read_register_hi(R) ==
    \E reply \in ReadReplySamples :
        read_register_hi_reply(R, reply) /\ UNCHANGED <<counter, reading, ctx>>

\* the argument registers of the write call:
\* riscv64: (R::ID, reverse_cast(value));  riscv32: (R::ID, low, high)
write_args(R, value) ==
    IF xlen = 64
    THEN <<Cast(R.ID, W), reverse_cast(R.width, value)>>
    ELSE LET hl == hi_lo(R.width, value) IN <<Cast(R.ID, W), hl[2], hl[1]>>

\* a write that passes the halves in the order hi_lo returns them
write_register_high_first(R, value) ==
    \E reply \in ReplySamples :
        /\ op' = [name |-> "write_register", register |-> R, value |-> value]
        /\ calls' = <<Trap(IF xlen = 64
                           THEN <<Cast(R.ID, W), reverse_cast(R.width, value)>>
                           ELSE <<Cast(R.ID, W)>> \o hi_lo(R.width, value),
                           CPPC_EXTENSION_ID, FromNat(3, W), reply[1], reply[2])>>
        /\ ret' = map_drop(ecall_result(reply[1], reply[2]))
        /\ UNCHANGED <<xlen, overflow_checks, mask, rr, counter, reading, ctx>>

\* ecall2(..)? or ecall3(..)?, then Ok(())
write_register(R, value) ==
    \E reply \in ReplySamples :
        /\ op' = [name |-> "write_register", register |-> R, value |-> value]
        /\ calls' = <<Trap(write_args(R, value), CPPC_EXTENSION_ID, FromNat(3, W),
                           reply[1], reply[2])>>
        /\ ret' = map_drop(ecall_result(reply[1], reply[2]))
        /\ UNCHANGED <<xlen, overflow_checks, mask, rr, counter, reading, ctx>>

\* read_register and read_register_hi take any R: Readable
CallReadRegister == \E R \in {r \in RegisterSamples : r.readable} : read_register(R)

CallReadRegisterHi == \E R \in {r \in RegisterSamples : r.readable} : read_register_hi(R)

\* write_register<R: Readable>
CallWriteRegister ==
    \E R \in {r \in RegisterSamples : r.readable} :
        \E value \in WidthSamples(R.width) : write_register(R, value)

\* <u32 as CastRegisterValue>::hi_lo and <u64 as CastRegisterValue>::hi_lo
CallHiLo ==
    \E width \in {32, 64} : \E value \in WidthSamples(width) :
        /\ op' = [name |-> "hi_lo", width |-> width, value |-> value]
        /\ ret' = Ok(hi_lo(width, value))
        /\ calls' = <<>>
        /\ UNCHANGED <<xlen, overflow_checks, mask, rr, counter, reading, ctx>>

-----------------------------------------------------------------------------
\* System reset

SRST_EXTENSION_ID == Hex(<<5, 3, 5, 2, 5, 3, 5, 4>>, W)

\* Ord::min on u32
u32_min(a, b) == IF Le(a, b) THEN a ELSE b

\* 0x0FFF_FFFF, the largest specific value; 0xF000_0000 and 0xE000_0000, where
\* the platform-specific and the SBI-specific codes start
ValidMax == Hex(<<15, 15, 15, 15, 15, 15, 15>>, 8)
PlatformBase == Hex(<<15, 0, 0, 0, 0, 0, 0, 0>>, 8)
SbiBase == Hex(<<14, 0, 0, 0, 0, 0, 0, 0>>, 8)

\* a + b on u32: a sum that does not fit panics in a build with overflow
\* checks and wraps in one without
u32_add(a, b) ==
    IF overflow_checks /\ AddOverflows(a, b) THEN Panic ELSE Ok(AddWrap(a, b))

\* a to_u32 that adds the offset to the value as given
ResetType_to_u32_unclamped(self) ==
    CASE self.variant = "Shutdown" -> Ok(FromNat(0, 8))
      [] self.variant = "ColdReboot" -> Ok(FromNat(1, 8))
      [] self.variant = "WarmReboot" -> Ok(FromNat(2, 8))
      [] self.variant = "PlatformSpecific" ->
            u32_add(self.n, PlatformBase)

\* ResetType::PlatformSpecific(n) => n.min(0x0FFF_FFFF) + 0xF000_0000
ResetType_to_u32(self) ==
    CASE self.variant = "Shutdown" -> Ok(FromNat(0, 8))
      [] self.variant = "ColdReboot" -> Ok(FromNat(1, 8))
      [] self.variant = "WarmReboot" -> Ok(FromNat(2, 8))
      [] self.variant = "PlatformSpecific" ->
            u32_add(u32_min(self.n, ValidMax), PlatformBase)

\* ResetReason::SbiSpecific(n) => n.min(0x0FFF_FFFF) + 0xE000_0000
\* ResetReason::PlatformSpecific(n) => n.min(0x0FFF_FFFF) + 0xF000_0000
ResetReason_to_u32(self) ==
    CASE self.variant = "NoReason" -> Ok(FromNat(0, 8))
      [] self.variant = "SystemFailure" -> Ok(FromNat(1, 8))
      [] self.variant = "SbiSpecific" ->
            u32_add(u32_min(self.n, ValidMax), SbiBase)
      [] self.variant = "PlatformSpecific" ->
            u32_add(u32_min(self.n, ValidMax), PlatformBase)

\* the u32 a caller puts in a platform- or SBI-specific variant: the ends of
\* the valid range, the first value above it, and u32::MAX
SpecificSamples ==
    {Zero(8), Hex(<<15, 15, 15, 15, 15, 15, 15>>, 8),
     Hex(<<1, 0, 0, 0, 0, 0, 0, 0>>, 8), MaxWord(8)}

ResetTypes ==
    {[variant |-> "Shutdown"], [variant |-> "ColdReboot"], [variant |-> "WarmReboot"]}
    \cup {[variant |-> "PlatformSpecific", n |-> n] : n \in SpecificSamples}

ResetReasons ==
    {[variant |-> "NoReason"], [variant |-> "SystemFailure"]}
    \cup {[variant |-> "SbiSpecific", n |-> n] : n \in SpecificSamples}
    \cup {[variant |-> "PlatformSpecific", n |-> n] : n \in SpecificSamples}

\* replies of firmware to a reset request: success, FAILED, a positive status
ResetReplyWords(n) ==
    {<<Zero(n), Zero(n)>>, <<Neg(1, n), Zero(n)>>, <<FromNat(1, n), Zero(n)>>}

ResetReplySamples32 == ResetReplyWords(8)
ResetReplySamples64 == ResetReplyWords(16)
ResetReplySamples == IF xlen = 32 THEN ResetReplySamples32 ELSE ResetReplySamples64

\* ecall2(kind.to_u32() as usize, reason.to_u32() as usize, EXTENSION_ID, 0),
\* then Ok(_) => unreachable!(..), Err(e) => Err(e)
system_reset(kind, reason) ==
    LET k == ResetType_to_u32(kind)
        r == ResetReason_to_u32(reason) IN
    /\ op' = [name |-> "system_reset", kind |-> kind, reason |-> reason]
    /\ IF k = Panic \/ r = Panic
       THEN calls' = <<>> /\ ret' = Panic
       ELSE \E reply \in ResetReplySamples :
               /\ calls' = <<Trap(<<Cast(k.val, W), Cast(r.val, W)>>,
                                  SRST_EXTENSION_ID, FromNat(0, W), reply[1], reply[2])>>
               /\ ret' = never_ok(ecall_result(reply[1], reply[2]))
    /\ UNCHANGED <<xlen, overflow_checks, mask, rr, counter, reading, ctx>>

CallSystemReset ==
    \E kind \in ResetTypes, reason \in ResetReasons : system_reset(kind, reason)

-----------------------------------------------------------------------------
\* Hart state management: hart_start, hart_stop, hart_state

\* ecall3(hart_id, start_addr.0, private, EXTENSION_ID, 0).map(drop)
hart_start(hart_id, start_addr, private) ==
    \E reply \in ReplySamples :
        /\ op' = [name |-> "hart_start", hart_id |-> hart_id]
        /\ calls' = <<Trap(<<hart_id, start_addr, private>>,
                           HSM_EXTENSION_ID, FromNat(0, W), reply[1], reply[2])>>
        /\ ret' = map_drop(ecall_result(reply[1], reply[2]))
        /\ UNCHANGED <<xlen, overflow_checks, mask, rr, counter, reading, ctx>>

\* ecall0(EXTENSION_ID, 1), then Ok(_) => unreachable!(..), Err(e) => Err(e)
hart_stop ==
    \E reply \in ReplySamples :
        /\ op' = [name |-> "hart_stop"]
        /\ calls' = <<Trap(<<>>, HSM_EXTENSION_ID, FromNat(1, W), reply[1], reply[2])>>
        /\ ret' = never_ok(ecall_result(reply[1], reply[2]))
        /\ UNCHANGED <<xlen, overflow_checks, mask, rr, counter, reading, ctx>>

\* a decoding with Started and Stopped exchanged
HartState_from_usize_swapped(n) ==
    CASE n = FromNat(0, W) -> Ok("Stopped")
      [] n = FromNat(1, W) -> Ok("Started")
      [] n = FromNat(2, W) -> Ok("StartRequestPending")
      [] n = FromNat(3, W) -> Ok("StopRequestPending")
      [] n = FromNat(4, W) -> Ok("Suspended")
      [] n = FromNat(5, W) -> Ok("SuspendPending")
      [] n = FromNat(6, W) -> Ok("ResumePending")
      [] OTHER -> Panic

\* HartState::from_usize: 0 ..= 6 are the states, any other word is
\* unreachable!(..)
HartState_from_usize(n) ==
    CASE n = FromNat(0, W) -> Ok("Started")
      [] n = FromNat(1, W) -> Ok("Stopped")
      [] n = FromNat(2, W) -> Ok("StartRequestPending")
      [] n = FromNat(3, W) -> Ok("StopRequestPending")
      [] n = FromNat(4, W) -> Ok("Suspended")
      [] n = FromNat(5, W) -> Ok("SuspendPending")
      [] n = FromNat(6, W) -> Ok("ResumePending")
      [] OTHER -> Panic

\* .map(HartState::from_usize): an Err passes through
map_from_usize(r) == IF r.tag = "Ok" THEN HartState_from_usize(r.val) ELSE r

\* replies of firmware to a state query: each state, a word that is none,
\* FAILED, INVALID_PARAMETER and a positive status
StateReplyWords(n) ==
    {<<Zero(n), FromNat(k, n)>> : k \in 0..7}
    \cup {<<Neg(1, n), Zero(n)>>, <<Neg(3, n), FromNat(1, n)>>, <<FromNat(1, n), Zero(n)>>}

StateReplySamples32 == StateReplyWords(8)
StateReplySamples64 == StateReplyWords(16)
StateReplySamples == IF xlen = 32 THEN StateReplySamples32 ELSE StateReplySamples64

\* ecall1(hart_id, EXTENSION_ID, 2).map(HartState::from_usize)
hart_state(hart_id) ==
    \E reply \in StateReplySamples :
        /\ op' = [name |-> "hart_state", hart_id |-> hart_id]
        /\ calls' = <<Trap(<<hart_id>>, HSM_EXTENSION_ID, FromNat(2, W),
                           reply[1], reply[2])>>
        /\ ret' = map_from_usize(ecall_result(reply[1], reply[2]))
        /\ UNCHANGED <<xlen, overflow_checks, mask, rr, counter, reading, ctx>>

\* hart IDs a caller names
HartIds == {FromNat(0, W), FromNat(1, W)}

CallHartStart == \E hart_id \in HartIds : hart_start(hart_id, ResumeAddr, Opaque)

CallHartStop == hart_stop

CallHartState == \E hart_id \in HartIds : hart_state(hart_id)

-----------------------------------------------------------------------------
\* Performance monitoring unit

PMU_EXTENSION_ID == Hex(<<5, 0, 4, 13, 5, 5>>, W)

\* Result::unwrap: an Err panics
unwrap(r) == IF r.tag = "Ok" THEN r ELSE Panic

\* unsafe { ecall0(EXTENSION_ID, 0).unwrap() }
num_counters ==
    \E reply \in ReplySamples :
        /\ op' = [name |-> "num_counters"]
        /\ calls' = <<Trap(<<>>, PMU_EXTENSION_ID, FromNat(0, W), reply[1], reply[2])>>
        /\ ret' = unwrap(ecall_result(reply[1], reply[2]))
        /\ UNCHANGED <<xlen, overflow_checks, mask, rr, counter, reading, ctx>>

\* unsafe { ecall1(counter_idx.0, EXTENSION_ID, 5) }
read_firmware_counter(counter_idx) ==
    \E reply \in ReplySamples :
        /\ op' = [name |-> "read_firmware_counter", counter_idx |-> counter_idx]
        /\ calls' = <<Trap(<<counter_idx>>, PMU_EXTENSION_ID, FromNat(5, W),
                           reply[1], reply[2])>>
        /\ ret' = ecall_result(reply[1], reply[2])
        /\ UNCHANGED <<xlen, overflow_checks, mask, rr, counter, reading, ctx>>

\* isize::is_positive
is_positive(n) == ~is_negative(n) /\ n # Zero(Len(n))

CounterInfo_Firmware == [kind |-> "Firmware", csr_number |-> <<>>, width |-> <<>>]

\* CounterInfo::Hardware { csr_number: res & 0xFFF, width: (res >> 12) & 0b0011_1111 }
CounterInfo_Hardware(res) ==
    [kind |-> "Hardware",
     csr_number |-> BitAnd(res, Hex(<<15, 15, 15>>, Len(res))),
     width |-> BitAnd(ShrDigits(res, 3), Hex(<<3, 15>>, Len(res)))]

\* match (res as isize).is_positive() { true => Hardware {..}, false => Firmware };
\* the ? before it passes an Err through
map_info(r) ==
    IF r.tag # "Ok" THEN r
    ELSE IF is_positive(r.val) THEN Ok(CounterInfo_Hardware(r.val))
    ELSE Ok(CounterInfo_Firmware)

\* replies of firmware to counter_get_info: the word 0, the cycle CSR 0xC00
\* of width 63, that word with bits above bit 17 set, the words with the most
\* significant bit set, and two refusals
InfoReplyWords(n) ==
    {<<Zero(n), Zero(n)>>, <<Zero(n), Hex(<<3, 15, 12, 0, 0>>, n)>>,
     <<Zero(n), Hex(<<5, 10, 15, 15, 12, 0, 0>>, n)>>,
     <<Zero(n), [i \in 1..n |-> IF i = 1 THEN 8 ELSE 0]>>, <<Zero(n), MaxWord(n)>>,
     <<Neg(3, n), Hex(<<3, 15, 12, 0, 0>>, n)>>, <<FromNat(1, n), Zero(n)>>}

InfoReplySamples32 == InfoReplyWords(8)
InfoReplySamples64 == InfoReplyWords(16)
InfoReplySamples == IF xlen = 32 THEN InfoReplySamples32 ELSE InfoReplySamples64

\* let res = unsafe { ecall1(counter_idx.0, EXTENSION_ID, 1) }?; Ok(match ..)
counter_info(counter_idx) ==
    \E reply \in InfoReplySamples :
        /\ op' = [name |-> "counter_info", counter_idx |-> counter_idx]
        /\ calls' = <<Trap(<<counter_idx>>, PMU_EXTENSION_ID, FromNat(1, W),
                           reply[1], reply[2])>>
        /\ ret' = map_info(ecall_result(reply[1], reply[2]))
        /\ UNCHANGED <<xlen, overflow_checks, mask, rr, counter, reading, ctx>>

\* counter indices a caller names
CounterIndices == {FromNat(0, W), FromNat(3, W)}

CallNumCounters == num_counters

CallCounterInfo == \E counter_idx \in CounterIndices : counter_info(counter_idx)

CallReadFirmwareCounter ==
    \E counter_idx \in CounterIndices : read_firmware_counter(counter_idx)

-----------------------------------------------------------------------------
\* Timer

TIME_EXTENSION_ID == Hex(<<5, 4, 4, 9, 4, 13, 4, 5>>, W)

\* the argument registers of the timer call:
\* riscv64: (time as usize);  riscv32: (time as usize, (time >> 32) as usize)
set_timer_args(time) ==
    IF xlen = 64
    THEN <<Cast(time, W)>>
    ELSE <<Cast(time, W), Cast(ShrDigits(time, 8), W)>>

\* ecall1(..).map(drop) or ecall2(..).map(drop)
set_timer(time) ==
    \E reply \in ReplySamples :
        /\ op' = [name |-> "set_timer", time |-> time]
        /\ calls' = <<Trap(set_timer_args(time), TIME_EXTENSION_ID, FromNat(0, W),
                           reply[1], reply[2])>>
        /\ ret' = map_drop(ecall_result(reply[1], reply[2]))
        /\ UNCHANGED <<xlen, overflow_checks, mask, rr, counter, reading, ctx>>

\* times a caller sets: a time with two different halves, and u64::MAX
TimeSamples == {Pattern(16), MaxWord(16)}

CallSetTimer == \E time \in TimeSamples : set_timer(time)

-----------------------------------------------------------------------------
\* IPI

IPI_EXTENSION_ID == Hex(<<7, 3, 5, 0, 4, 9>>, W)

\* a send_ipi that passes the base first
send_ipi_base_first(hart_mask) ==
    \E reply \in ReplySamples :
        /\ op' = [name |-> "send_ipi", hart_mask |-> hart_mask]
        /\ calls' = <<Trap(<<hart_mask.base, hart_mask.mask>>,
                           IPI_EXTENSION_ID, FromNat(0, W), reply[1], reply[2])>>
        /\ ret' = map_drop(ecall_result(reply[1], reply[2]))
        /\ UNCHANGED <<xlen, overflow_checks, mask, rr, counter, reading, ctx>>

\* ecall2(hart_mask.mask, hart_mask.base, EXTENSION_ID, 0).map(drop)
send_ipi(hart_mask) ==
    \E reply \in ReplySamples :
        /\ op' = [name |-> "send_ipi", hart_mask |-> hart_mask]
        /\ calls' = <<Trap(<<hart_mask.mask, hart_mask.base>>,
                           IPI_EXTENSION_ID, FromNat(0, W), reply[1], reply[2])>>
        /\ ret' = map_drop(ecall_result(reply[1], reply[2]))
        /\ UNCHANGED <<xlen, overflow_checks, mask, rr, counter, reading, ctx>>

\* HartMask is Copy: the caller keeps the mask it passes
CallSendIpi ==
    /\ mask.kind = "HartMask"
    /\ send_ipi(mask)

-----------------------------------------------------------------------------
\* Firmware: the Reference Performance Counter, read in halves

\* the most the counter advances from where it starts
MaxTicks == 3

\* where the counter starts: two below a multiple of 2^32, and a value whose
\* low half is far from wrapping
CounterStarts == {ZeroExtend(Hex(<<15, 15, 15, 15, 15, 15, 15, 14>>, 8), 16), Pattern(16)}

\* the counter accumulates while the processor is active
Tick ==
    /\ \E s \in CounterStarts :
          Le(s, counter) /\ Lt(counter, AddWrap(s, FromNat(MaxTicks, 16)))
    /\ counter' = AddWrap(counter, FromNat(1, 16))
    /\ UNCHANGED <<xlen, overflow_checks, op, calls, ret, mask, rr, reading, ctx>>

\* sbi_cppc_read: the low XLEN bits of the register
cppc_read(value) == Cast(value, W)

\* sbi_cppc_read_hi: the upper 32 bits of the register; 0 when XLEN >= 64
cppc_read_hi(value) == IF xlen = 32 THEN Cast(ShrDigits(value, 8), W) ELSE Zero(W)

\* what firmware leaves in a1 for the function ID in a6
cppc_value(function_id, value) ==
    IF function_id = FromNat(2, W) THEN cppc_read_hi(value) ELSE cppc_read(value)

\* the status of a counter read: success or FAILED
CounterStatuses == {Zero(W), Code(1)}

\* let low = read_register(ReferencePerformanceCounter)?;
\* the caller starts a read of the counter; an Err ends it
ReadCounterLow ==
    /\ reading.step \in {0, 2}
    /\ \E error \in CounterStatuses, value \in {cppc_read(counter), cppc_read_hi(counter)} :
          /\ read_register_reply(ReferencePerformanceCounter, <<error, value>>)
          /\ value = cppc_value(calls'[1].a6, counter)
          /\ reading' = IF ret'.tag = "Ok"
                        THEN [step |-> 1, calls |-> calls', low |-> ret'.val,
                              high |-> <<>>, at_low |-> counter, at_high |-> <<>>]
                        ELSE NoReading
    /\ UNCHANGED <<counter, ctx>>

\* let high = read_register_hi(ReferencePerformanceCounter)?;
\* the caller goes on to the upper half; an Err ends the read
ReadCounterHigh ==
    /\ reading.step = 1
    /\ \E error \in CounterStatuses, value \in {cppc_read(counter), cppc_read_hi(counter)} :
          /\ read_register_hi_reply(ReferencePerformanceCounter, <<error, value>>)
          /\ value = cppc_value(calls'[1].a6, counter)
          /\ reading' = IF ret'.tag = "Ok"
                        THEN [reading EXCEPT !.step = 2, !.calls = @ \o calls',
                                             !.high = ret'.val, !.at_high = counter]
                        ELSE NoReading
    /\ UNCHANGED <<counter, ctx>>

-----------------------------------------------------------------------------
\* hart_mask! and chains of with

\* the most IDs that follow the constructor in one listing
MaxListed == 3

\* IDs a caller lists: small ones, one more than a word above them, and
\* usize::MAX
ListedWords(n) == {FromNat(1, n), FromNat(5, n), FromNat(4 * n + 5, n), MaxWord(n)}

ListedSamples32 == ListedWords(8)
ListedSamples64 == ListedWords(16)
ListedSamples == IF xlen = 32 THEN ListedSamples32 ELSE ListedSamples64

\* let mut hart_mask = <constructor>;  the caller holds a mask and has listed
\* no further ID
Listing(arm, m) ==
    /\ op' = [name |-> "listing", arm |-> arm, first |-> m, ids |-> <<>>]
    /\ mask' = m
    /\ ret' = Ok(m)
    /\ calls' = <<>>
    /\ UNCHANGED <<xlen, overflow_checks, rr, counter, reading, ctx>>

\* hart_mask!(id1, ...): let mut hart_mask = HartMask::from($hart_id1);
MacroIds == \E hart_id1 \in ListedSamples : Listing("ids", HartMask_from(hart_id1))

\* hart_mask!(base: b, ids: ...): let mut hart_mask = HartMask::new($base);
MacroBase == \E base \in BaseSamples : Listing("base", HartMask_new(base))

\* CounterIndexMask::new(base) or ::from(idx), followed by .with(..) calls
ChainCounterIndexMask ==
    \/ \E base \in BaseSamples : Listing("chain", CounterIndexMask_new(base))
    \/ \E idx \in ListedSamples : Listing("chain", CounterIndexMask_from(idx))

\* hart_mask = hart_mask.with($hart_id);  the next ID of the listing.  A
\* panic ends the program.
ListedWith ==
    /\ op.name = "listing"
    /\ ret.tag = "Ok"
    /\ Len(op.ids) < MaxListed
    /\ \E id \in ListedSamples :
          LET r == mask_with(mask, id) IN
          /\ op' = [op EXCEPT !.ids = Append(@, id)]
          /\ ret' = r
          /\ mask' = IF r.tag = "Ok" THEN r.val ELSE NoMask
          /\ calls' = <<>>
          /\ UNCHANGED <<xlen, overflow_checks, rr, counter, reading, ctx>>

-----------------------------------------------------------------------------
\* Two execution contexts.  A HartMask is a Copy value held by the context
\* that built it; a trap's operands are that context's registers.

\* hart IDs the contexts use
ContextIds == {Zero(W), FromNat(1, W), FromNat(5, W)}

\* a context that builds a selector mask in a static shared by all contexts
ContextWith_static(h) ==
    /\ ctx[h].pc = "run"
    /\ ctx[h].mask # NoMask
    /\ \E hart_id \in ContextIds :
          LET r == HartMask_with(ctx[h].mask, hart_id) IN
          ctx' = [g \in Contexts |->
                     IF g = h
                     THEN [ctx[h] EXCEPT !.mask = r.val, !.calls = <<>>, !.ret = r]
                     ELSE [ctx[g] EXCEPT !.mask = r.val]]
    /\ UNCHANGED <<xlen, overflow_checks, op, calls, ret, mask, rr, counter, reading>>

\* context h: let m = HartMask::from(hart_id);
ContextFrom(h) ==
    /\ ctx[h].pc = "run"
    /\ \E hart_id \in ContextIds :
          ctx' = [ctx EXCEPT ![h] = [pc |-> "run", mask |-> HartMask_from(hart_id),
                                     calls |-> <<>>, ret |-> Ok(HartMask_from(hart_id))]]
    /\ UNCHANGED <<xlen, overflow_checks, op, calls, ret, mask, rr, counter, reading>>

\* context h: m = m.with(hart_id);  self is taken and returned by value
ContextWith(h) ==
    /\ ctx[h].pc = "run"
    /\ ctx[h].mask # NoMask
    /\ \E hart_id \in ContextIds :
          LET r == HartMask_with(ctx[h].mask, hart_id) IN
          ctx' = [ctx EXCEPT ![h] = [@ EXCEPT !.mask = r.val, !.calls = <<>>, !.ret = r]]
    /\ UNCHANGED <<xlen, overflow_checks, op, calls, ret, mask, rr, counter, reading>>

\* context h: send_ipi(m) up to the ecall instruction of ecall2.  a0 and a1
\* hold the two arguments, a6 the function ID and a7 the extension ID.
ContextTrap(h) ==
    /\ ctx[h].pc = "run"
    /\ ctx[h].mask # NoMask
    /\ ctx' = [ctx EXCEPT ![h] =
                  [@ EXCEPT !.pc = "trap", !.ret = NoRet,
                            !.calls = <<Trap(<<ctx[h].mask.mask, ctx[h].mask.base>>,
                                             IPI_EXTENSION_ID, FromNat(0, W),
                                             ctx[h].mask.mask, ctx[h].mask.base)>>]]
    /\ UNCHANGED <<xlen, overflow_checks, op, calls, ret, mask, rr, counter, reading>>

\* context h: firmware returns with status in a0 and value in a1 of that
\* context; ecall2 matches on them and send_ipi maps the result
ContextReturn(h) ==
    /\ ctx[h].pc = "trap"
    /\ \E reply \in ReplySamples :
          ctx' = [ctx EXCEPT ![h] =
                     [@ EXCEPT !.pc = "run",
                               !.calls = <<[@[1] EXCEPT !.a0 = reply[1], !.a1 = reply[2]]>>,
                               !.ret = map_drop(ecall_result(reply[1], reply[2]))]]
    /\ UNCHANGED <<xlen, overflow_checks, op, calls, ret, mask, rr, counter, reading>>

-----------------------------------------------------------------------------
\* PMU counter configuration flags

\* impl CounterConfigurationFlags: the associated constants, each Self(usize)
CounterConfigurationFlags ==
    [NONE |-> Zero(W),
     SKIP_MATCH |-> ShlOne(0, W),
     CLEAR_VALUE |-> ShlOne(1, W),
     AUTO_START |-> ShlOne(2, W),
     SET_VUINH |-> ShlOne(3, W),
     VU_MODE_INHIBIT |-> ShlOne(3, W),
     SET_VSINH |-> ShlOne(4, W),
     VS_MODE_INHIBIT |-> ShlOne(4, W),
     SET_UINH |-> ShlOne(5, W),
     U_MODE_INHIBIT |-> ShlOne(5, W),
     SET_SINH |-> ShlOne(6, W),
     S_MODE_INHIBIT |-> ShlOne(6, W),
     SET_MINH |-> ShlOne(6, W),
     M_MODE_INHIBIT |-> ShlOne(6, W)]

\* fn bitor(self, rhs) -> Self { Self(self.0 | rhs.0) }
bitor(self, rhs) == BitOr(self, rhs)

\* Default::default() is Self::NONE
CallFlagsDefault ==
    /\ op' = [name |-> "default"]
    /\ ret' = Ok(CounterConfigurationFlags.NONE)
    /\ calls' = <<>>
    /\ UNCHANGED <<xlen, overflow_checks, mask, rr, counter, reading, ctx>>

\* a | b for two named flags
CallBitOr ==
    \E a \in DOMAIN CounterConfigurationFlags, b \in DOMAIN CounterConfigurationFlags :
        /\ op' = [name |-> "bitor", self |-> a, rhs |-> b]
        /\ ret' = Ok(bitor(CounterConfigurationFlags[a], CounterConfigurationFlags[b]))
        /\ calls' = <<>>
        /\ UNCHANGED <<xlen, overflow_checks, mask, rr, counter, reading, ctx>>

\* flags |= b: self.0 |= rhs.0, on flags the caller has just made
CallBitOrAssign ==
    /\ op.name \in {"default", "bitor"}
    /\ \E b \in DOMAIN CounterConfigurationFlags :
          /\ op' = [name |-> "bitor_assign", self |-> ret.val, rhs |-> b]
          /\ ret' = Ok(bitor(ret.val, CounterConfigurationFlags[b]))
          /\ calls' = <<>>
          /\ UNCHANGED <<xlen, overflow_checks, mask, rr, counter, reading, ctx>>

-----------------------------------------------------------------------------
\* the state before any operation, for the given builds
Start(checks) ==
    /\ xlen \in {32, 64}
    /\ overflow_checks \in checks
    /\ op = [name |-> "init"]
    /\ calls = <<>>
    /\ ret = NoRet
    /\ mask = NoMask
    /\ rr = NoValue
    /\ counter = Zero(16)
    /\ reading = NoReading
    /\ ctx = [h \in Contexts |-> Idle]

\* the transport has no arithmetic that can overflow
InitTransport == Start({FALSE})

NextTransport ==
    \/ ecall0 \/ ecall1 \/ ecall2 \/ ecall3 \/ ecall4 \/ ecall5 \/ ecall6
    \/ CallDisplay

SpecTransport == InitTransport /\ [][NextTransport]_vars

InitMask == Start(BOOLEAN)

NextMask ==
    \/ CallHartMaskNew \/ CallHartMaskFrom \/ CallHartMaskWith
    \/ CallCounterIndexMaskEmpty \/ CallCounterIndexMaskNew
    \/ CallCounterIndexMaskFrom \/ CallCounterIndexMaskWith
    \/ CallHartMaskEq \/ CallSendIpi

SpecMask == InitMask /\ [][NextMask]_vars

InitRange == Start({FALSE})

NextRange ==
    \/ CallRestrictedRangeNew \/ CallU32From \/ CallClone
    \/ CallSystemSuspend \/ CallHartSuspend

SpecRange == InitRange /\ [][NextRange]_vars

InitCppc == Start({FALSE})

NextCppc ==
    \/ CallReadRegister \/ CallReadRegisterHi \/ CallWriteRegister \/ CallHiLo

SpecCppc == InitCppc /\ [][NextCppc]_vars

InitReset == Start(BOOLEAN)

NextReset ==
    \/ CallSystemReset \/ CallHartStop \/ CallSystemSuspend

SpecReset == InitReset /\ [][NextReset]_vars

InitCalls == Start({FALSE})

NextCalls ==
    \/ ecall0 \/ ecall1 \/ ecall2 \/ ecall3 \/ ecall4 \/ ecall5 \/ ecall6
    \/ CallHartStart \/ CallHartState \/ CallSetTimer
    \/ CallNumCounters \/ CallReadFirmwareCounter \/ CallCounterInfo

SpecCalls == InitCalls /\ [][NextCalls]_vars

\* the counter is running when the caller starts
InitCounter ==
    /\ xlen \in {32, 64}
    /\ overflow_checks = FALSE
    /\ op = [name |-> "init"]
    /\ calls = <<>>
    /\ ret = NoRet
    /\ mask = NoMask
    /\ rr = NoValue
    /\ counter \in CounterStarts
    /\ reading = NoReading
    /\ ctx = [h \in Contexts |-> Idle]

NextCounter ==
    \/ Tick \/ ReadCounterLow \/ ReadCounterHigh

SpecCounter == InitCounter /\ [][NextCounter]_vars

InitListing == Start(BOOLEAN)

NextListing ==
    \/ MacroIds \/ MacroBase \/ ChainCounterIndexMask \/ ListedWith

SpecListing == InitListing /\ [][NextListing]_vars

InitContexts == Start({FALSE})

NextContexts ==
    \E h \in Contexts :
        \/ ContextFrom(h) \/ ContextWith(h) \/ ContextTrap(h) \/ ContextReturn(h)

SpecContexts == InitContexts /\ [][NextContexts]_vars

InitFlags == Start({FALSE})

NextFlags ==
    \/ CallFlagsDefault \/ CallBitOr \/ CallBitOrAssign

SpecFlags == InitFlags /\ [][NextFlags]_vars

-----------------------------------------------------------------------------
\* Transport and error classification

\* the single trap of the operation last executed
TheCall == calls[1]

\* C1: for every arity 0..6 and every (status, value) firmware leaves in a0 and
\* a1, ecallN returns Ok(value) exactly when status is 0, and otherwise Err of
\* the error built from status alone: None for a positive status, Some(status)
\* for a negative one.  The value word is not part of an Err.
C1_EcallOkIffStatusZero ==
    op.name = "ecall" =>
        /\ Len(calls) = 1
        /\ (ret.tag = "Ok") = (TheCall.a0 = Zero(W))
        /\ ret.tag \in {"Ok", "Err"}
        /\ ret.tag = "Ok" => ret.val = TheCall.a1
        /\ ret.tag = "Err" =>
              ret.val = IF TheCall.a0[1] >= 8 THEN <<TheCall.a0>> ELSE <<>>

\* an ecall6 that failed although firmware left a non-zero word in a1
C1_Witness ==
    /\ op.name = "ecall" /\ op.n = 6
    /\ ret.tag = "Err"
    /\ TheCall.a1 # Zero(W)

\* C2: each status -1 .. -9 is classified as its own named kind, the result
\* equals that named constant, and no two of the nine codes yield equal errors.
C2_DocumentedCodesNamed ==
    /\ \A k \in 1..9 :
          (op.name = "ecall" /\ TheCall.a0 = Code(k)) =>
              ret.tag = "Err" /\ ret.val = NamedKind(k)
    /\ \A j, k \in 1..9 :
          j # k => /\ NamedKind(j) # NamedKind(k)
                   /\ SbiError_new(Code(j)) # SbiError_new(Code(k))

\* firmware answered SBI_ERR_SHARED_MEMORY_UNAVAILABLE (-9)
C2_Witness ==
    /\ op.name = "ecall"
    /\ TheCall.a0 = Code(9)
    /\ ret = Err(SHARED_MEMORY_UNAVAILABLE)

\* a negative status that is none of -1 .. -9
Unrecognized(n) == n[1] >= 8 /\ \A k \in 1..9 : n # Code(k)

\* C3: a negative status outside -1 .. -9 is classified without a panic, as an
\* error that equals none of the nine named kinds and carries the raw code, so
\* two different unrecognized codes yield unequal errors.
C3_UnrecognizedCodesKept ==
    /\ (op.name = "ecall" /\ Unrecognized(TheCall.a0)) =>
          /\ ret.tag = "Err"
          /\ \A k \in 1..9 : ret.val # NamedKind(k)
          /\ ret.val = <<TheCall.a0>>
    /\ \A m, n \in StatusSamples :
          (Unrecognized(m) /\ Unrecognized(n) /\ m # n) =>
              SbiError_new(m) # SbiError_new(n)

\* firmware answered the most negative word
C3_Witness ==
    /\ op.name = "ecall"
    /\ TheCall.a0 = [i \in 1..W |-> IF i = 1 THEN 8 ELSE 0]
    /\ ret.tag = "Err"

-----------------------------------------------------------------------------
\* Selector bitmasks

\* base <= id < base + WORD_BITS, in unbounded arithmetic
InWindow(base, id) == Le(base, id) /\ Lt(SubWrap(id, base), FromNat(WORD_BITS, W))

\* C4: with(id) returns the mask with bit (id - base) set and every other bit
\* kept when base <= id < base + WORD_BITS, and the mask unchanged otherwise.
C4_WithSelectsWindow ==
    op.name = "with" =>
        /\ ret.tag = "Ok"
        /\ mask.base = op.self.base
        /\ mask.mask =
              IF InWindow(op.self.base, op.id)
              THEN BitOr(op.self.mask, ShlOne(SmallNat(SubWrap(op.id, op.self.base)), W))
              ELSE op.self.mask

\* C5: from(id) yields base = id and mask = 1, new(base) yields the given base
\* and mask = 0, for HartMask and for CounterIndexMask.
C5_Constructors ==
    /\ op.name = "from" =>
          mask.kind = op.kind /\ mask.base = op.arg /\ mask.mask = FromNat(1, W)
    /\ op.name = "new" =>
          mask.kind = op.kind /\ mask.base = op.arg /\ mask.mask = Zero(W)

\* HartMask::from(5)
C5_Witness ==
    /\ op.name = "from" /\ op.kind = "HartMask"
    /\ op.arg = FromNat(5, W)
    /\ BitSet(mask.mask, 0)

-----------------------------------------------------------------------------
\* RestrictedRange

\* C6: RestrictedRange<MIN, MAX>::new(v) panics and produces no value for every
\* v < MIN or v > MAX; for every v in [MIN, MAX] it succeeds and stores v, and
\* converting the value back to u32 returns what is stored.
C6_NewRejectsOutside ==
    /\ op.name = "RestrictedRange::new" =>
          IF Lt(op.value, op.min) \/ Lt(op.max, op.value)
          THEN ret = Panic /\ rr = NoValue
          ELSE /\ ret.tag = "Ok"
               /\ rr = [min |-> op.min, max |-> op.max, v |-> op.value]
               /\ u32_from_RestrictedRange(ret.val) = op.value
    /\ op.name = "u32::from" => ret = Ok(rr.v)

\* RestrictedRange<0x80000000, 0xFFFFFFFF>::new(0x80000000): MIN is accepted
C6_Witness ==
    /\ op.name = "RestrictedRange::new"
    /\ op.value = op.min
    /\ rr.v = SleepRange[1]

\* lo <= a <= hi for the usize a and the u32 bounds lo, hi
Within(a, lo, hi) == Le(Cast(lo, W), a) /\ Le(a, Cast(hi, W))

\* C7: a RestrictedRange value that exists lies in [MIN, MAX], so the type
\* word on the wire is in the documented set: system_suspend sends 0 or a value
\* in [0x80000000, 0xFFFFFFFF]; hart_suspend sends 0, 0x80000000, a value in
\* [0x10000000, 0x7FFFFFFF] (platform retentive) or a value in
\* [0x90000000, 0xFFFFFFFF] (platform non-retentive).
C7_RangeValuesStayValid ==
    /\ rr # NoValue => Le(rr.min, rr.v) /\ Le(rr.v, rr.max)
    /\ op.name = "system_suspend" =>
          IF op.variant = "PlatformSpecific"
          THEN Within(TheCall.args[1], SleepRange[1], SleepRange[2])
          ELSE TheCall.args[1] = Zero(W)
    /\ op.name = "hart_suspend" =>
          CASE op.variant = "DefaultRetentive" -> TheCall.args[1] = Zero(W)
            [] op.variant = "DefaultNonRetentive" ->
                  TheCall.args[1] = Hex(<<8, 0, 0, 0, 0, 0, 0, 0>>, W)
            [] op.variant = "PlatformSpecificRetentive" ->
                  Within(TheCall.args[1], RetentiveRange[1], RetentiveRange[2])
            [] op.variant = "PlatformSpecificNonRetentive" ->
                  Within(TheCall.args[1], NonRetentiveRange[1], NonRetentiveRange[2])

\* hart_suspend sent a platform-specific non-retentive type built earlier
C7_Witness ==
    /\ op.name = "hart_suspend"
    /\ op.variant = "PlatformSpecificNonRetentive"
    /\ TheCall.args[1] = Cast(rr.v, W)

-----------------------------------------------------------------------------
\* Register width

\* (h << 32) | l, as a u64
combine(h, l) == BitOr(ShlDigits(Cast(h, 16), 8), Cast(l, 16))

\* a < 2^32
Below2p32(a) == \A i \in 1..(Len(a) - 8) : a[i] = 0

\* C8: on a 32-bit native word, hi_lo of a 64-bit value V is (h, l) with
\* h < 2^32, l < 2^32 and (h << 32) | l = V.
C8_HiLoRoundTrip ==
    (op.name = "hi_lo" /\ op.width = 64 /\ xlen = 32) =>
        /\ Len(ret.val) = 2
        /\ Len(ret.val[1]) = W /\ Len(ret.val[2]) = W
        /\ Below2p32(ret.val[1]) /\ Below2p32(ret.val[2])
        /\ combine(ret.val[1], ret.val[2]) = op.value

\* hi_lo(0x0123456789ABCDEF) on riscv32
C8_Witness ==
    /\ op.name = "hi_lo" /\ op.width = 64 /\ xlen = 32
    /\ op.value = Pattern(16)
    /\ ret.val[1] # ret.val[2]

\* C9: read_register issues exactly one call, function 1 with the register ID
\* as its single argument, and returns the value word cast to the register's
\* width; the high half is the business of read_register_hi, one call of
\* function 2 with the same ID.  On a native word at least as wide as the
\* register the first call returns every bit of a value of that width.
C9_ReadProtocol ==
    /\ op.name \in {"read_register", "read_register_hi"} =>
          /\ Len(calls) = 1
          /\ TheCall.a7 = CPPC_EXTENSION_ID
          /\ TheCall.a6 = FromNat(IF op.name = "read_register" THEN 1 ELSE 2, W)
          /\ TheCall.args = <<Cast(op.register.ID, W)>>
          /\ IF TheCall.a0 = Zero(W)
             THEN /\ ret.tag = "Ok"
                  /\ Len(ret.val) * 4 = op.register.width
                  /\ \A i \in 1..Len(ret.val) :
                        ret.val[Len(ret.val) + 1 - i] =
                            IF i <= W THEN TheCall.a1[W + 1 - i] ELSE 0
             ELSE ret.tag = "Err"
    /\ (op.name = "read_register" /\ op.register.width <= xlen /\ ret.tag = "Ok") =>
          \A v \in WidthSamples(op.register.width) :
              TheCall.a1 = ZeroExtend(v, W) => ret.val = v

\* ReferencePerformanceCounter read on riscv32: the low half only
C9_Witness ==
    /\ op.name = "read_register" /\ xlen = 32
    /\ op.register = ReferencePerformanceCounter
    /\ ret = Ok(ZeroExtend(MaxWord(8), 16))

\* C10: write_register issues exactly one call, function 3.  On riscv64 it
\* carries (register ID, value); on riscv32 it carries (register ID, low, high)
\* with (high << 32) | low equal to the value written.
C10_WriteProtocol ==
    op.name = "write_register" =>
        /\ Len(calls) = 1
        /\ TheCall.a7 = CPPC_EXTENSION_ID
        /\ TheCall.a6 = FromNat(3, W)
        /\ TheCall.args[1] = Cast(op.register.ID, W)
        /\ IF xlen = 64
           THEN /\ Len(TheCall.args) = 2
                /\ TheCall.args[2] = ZeroExtend(op.value, 16)
           ELSE /\ Len(TheCall.args) = 3
                /\ combine(TheCall.args[3], TheCall.args[2]) = ZeroExtend(op.value, 16)

\* a 64-bit value written on riscv32 with different halves
C10_Witness ==
    /\ op.name = "write_register" /\ xlen = 32
    /\ op.register.width = 64
    /\ TheCall.args[2] # TheCall.args[3]
    /\ ret = Ok(Unit)

-----------------------------------------------------------------------------
\* Calls and their outcomes

\* the error a status word that is not 0 stands for: the word itself when it
\* is negative, none when it is positive
Classified(n) == IF n[1] >= 8 THEN <<n>> ELSE <<>>

\* C11: system_reset, hart_stop and system_suspend never hand their caller a
\* success: when firmware answers status 0 the wrapper panics, when it answers
\* any other status the wrapper returns Err of the classified error.
C11_NeverReturnsOk ==
    op.name \in {"system_reset", "hart_stop", "system_suspend"} =>
        /\ Len(calls) = 1
        /\ ret.tag # "Ok"
        /\ IF TheCall.a0 = Zero(W)
           THEN ret = Panic
           ELSE ret = Err(Classified(TheCall.a0))

\* firmware answered a reset request with status 0 and gave control back
C11_Witness ==
    /\ op.name = "system_reset"
    /\ TheCall.a0 = Zero(W)
    /\ ret = Panic

\* C12: whatever status other than 0 firmware answers with, the operation
\* that made the call returns it as an Err of the classified error and does
\* not panic; num_counters is one of these operations.
C12_ErrorsAreValues ==
    (Len(calls) = 1 /\ TheCall.a0 # Zero(W)) => ret = Err(Classified(TheCall.a0))

\* C13: an invocation of the transport, and so each wrapper that makes one
\* call, traps exactly once: an error status is not followed by a second
\* trap, and the transport returns the classified error to its caller.
C13_OneTrapNoRetry ==
    op.name # "init" =>
        /\ Len(calls) = 1
        /\ (op.name = "ecall" /\ TheCall.a0 # Zero(W)) =>
              ret = Err(Classified(TheCall.a0))

\* ecall0 was answered SBI_ERR_FAILED
C13_Witness ==
    /\ op.name = "ecall" /\ op.n = 0
    /\ TheCall.a0 = Code(1)
    /\ Len(calls) = 1
    /\ ret = Err(FAILED)

\* C14: for every arity N in 0..6, ecallN puts argument i in register a_i for
\* i < N, the function ID in a6 and the extension ID in a7, sets no argument
\* register a_j for j >= N, and takes the status from a0 and the value from a1.
C14_RegisterPlacement ==
    op.name = "ecall" =>
        /\ Len(calls) = 1
        /\ Len(TheCall.args) = op.n
        /\ \A i \in 1..op.n :
              TheCall.args[i] = op.args[i] /\ TheCall.args[i] = FromNat(i, W)
        /\ TheCall.a6 = op.function_id
        /\ TheCall.a7 = op.extension_id
        /\ ret = IF TheCall.a0 = Zero(W)
                 THEN Ok(TheCall.a1)
                 ELSE Err(Classified(TheCall.a0))

\* an ecall3 that succeeded with a value that is not 0
C14_Witness ==
    /\ op.name = "ecall" /\ op.n = 3
    /\ TheCall.a6 # TheCall.a7
    /\ ret = Ok(Hex(<<2, 10>>, W))

-----------------------------------------------------------------------------
\* Hart masks on the wire

\* the IDs a mask selects: base + i for every bit i set in the mask word
Selected(m) ==
    {AddWrap(m.base, FromNat(i, W)) : i \in {j \in 0..(WORD_BITS - 1) : BitSet(m.mask, j)}}

\* the harts a firmware signals for a call whose first argument is the mask
\* word and whose second is the base
Signalled(call) == Selected([base |-> call.args[2], mask |-> call.args[1]])

\* C15: send_ipi issues one call whose first argument is the mask word and
\* whose second is the base, so firmware signals exactly the harts the mask
\* selects; for HartMask::from(h) the arguments are (1, h) and the only hart
\* signalled is h.
C15_SendIpiTargets ==
    op.name = "send_ipi" =>
        /\ Len(calls) = 1
        /\ TheCall.a7 = IPI_EXTENSION_ID
        /\ TheCall.a6 = FromNat(0, W)
        /\ Len(TheCall.args) = 2
        /\ Signalled(TheCall) = Selected(op.hart_mask)
        /\ \A h \in BaseSamples :
              op.hart_mask = HartMask_from(h) =>
                  /\ TheCall.args = <<FromNat(1, W), h>>
                  /\ Signalled(TheCall) = {h}

\* send_ipi(HartMask::from(5)) succeeded
C15_Witness ==
    /\ op.name = "send_ipi"
    /\ op.hart_mask = HartMask_from(FromNat(5, W))
    /\ Signalled(TheCall) = {FromNat(5, W)}
    /\ ret = Ok(Unit)

\* C17: with is idempotent: m.with(id) returns a mask, and applying with(id)
\* to that mask returns it again; from(id).with(id) is from(id).
C17_WithIdempotent ==
    (op.name = "with" /\ op.kind = "HartMask") =>
        /\ ret.tag = "Ok"
        /\ HartMask_with(mask, op.id) = Ok(mask)
        /\ op.self = HartMask_from(op.id) => mask = op.self

\* C18: two HartMask values compare equal exactly when their bases are equal
\* and their mask words are equal; masks of different bases that select the
\* same IDs compare unequal.
C18_EqualityIsFieldwise ==
    op.name = "eq" =>
        /\ ret.tag = "Ok"
        /\ ret.val = (op.self.base = op.other.base /\ op.self.mask = op.other.mask)
        /\ (op.self.base # op.other.base /\ Selected(op.self) = Selected(op.other)) =>
              ret.val = FALSE

\* base 0 with bit 5 set against base 5 with bit 0 set
C18_Witness ==
    /\ op.name = "eq"
    /\ op.self.base = FromNat(0, W) /\ op.other.base = FromNat(5, W)
    /\ Selected(op.self) = {FromNat(5, W)}
    /\ Selected(op.other) = {FromNat(5, W)}
    /\ ret = Ok(FALSE)

-----------------------------------------------------------------------------
\* A running counter read in halves

\* the reads the caller makes of the counter are function 1, then function 2
TwoCalls ==
    /\ Len(reading.calls) = 2
    /\ reading.calls[1].a6 = FromNat(1, W)
    /\ reading.calls[2].a6 = FromNat(2, W)

\* C16 as stated: on riscv32 the two reads of a running 64-bit counter are
\* exactly two calls, and (high << 32) | low is a value the counter held
\* while it was read.
C16_CombinedIsCounterValue ==
    (xlen = 32 /\ reading.step = 2) =>
        /\ TwoCalls
        /\ Le(reading.at_low, combine(reading.high, reading.low))
        /\ Le(combine(reading.high, reading.low), reading.at_high)

\* C16: on riscv32 the two reads of a running 64-bit counter are exactly two
\* calls, and (high << 32) | low is the value the counter had at the first
\* call whenever its upper 32 bits are the same at both calls.
C16_CombinedUnlessCarry ==
    (xlen = 32 /\ reading.step = 2) =>
        /\ TwoCalls
        /\ ShrDigits(reading.at_low, 8) = ShrDigits(reading.at_high, 8) =>
              combine(reading.high, reading.low) = reading.at_low

\* the counter advanced between the two reads without a carry into the upper
\* half
C16_Witness ==
    /\ xlen = 32 /\ reading.step = 2
    /\ reading.at_low # reading.at_high
    /\ combine(reading.high, reading.low) = reading.at_low
    /\ reading.high # Zero(16)

\* C19 as stated: hi_lo returns a high word of 0 for every value whose width
\* fits in one native word.
C19_HighZeroWhenFits ==
    (op.name = "hi_lo" /\ op.width <= xlen) => ret.val[1] = Zero(W)

\* C19: hi_lo returns a high word of 0 for every 32-bit value on either native
\* width; for a 64-bit value the high word is the upper 32 bits on either
\* native width, and is 0 exactly for the values below 2^32.
C19_HighZeroForU32 ==
    op.name = "hi_lo" =>
        /\ op.width = 32 => ret.val = <<Zero(W), ZeroExtend(op.value, W)>>
        /\ op.width = 64 =>
              /\ ZeroExtend(ret.val[1], 16) = ShrDigits(op.value, 8)
              /\ (ret.val[1] = Zero(W)) = Below2p32(op.value)

\* hi_lo(0x0123456789ABCDEF) on riscv64
C19_Witness ==
    /\ op.name = "hi_lo" /\ op.width = 64 /\ xlen = 64
    /\ op.value = Pattern(16)
    /\ ret.val[1] = ShrDigits(op.value, 8)
    /\ ret.val[1] # Zero(W)

-----------------------------------------------------------------------------
\* Reset codes

\* 0xd0000000 + min(n, 0x0FFFFFFF): n with its top digit replaced when n is at
\* most 0x0FFFFFFF, the top of the range otherwise
Clamped(d, n) ==
    IF n[1] = 0 THEN [n EXCEPT ![1] = d] ELSE [i \in 1..8 |-> IF i = 1 THEN d ELSE 15]

\* C20: ResetType::PlatformSpecific(n) is sent as 0xF0000000 + min(n, 0x0FFFFFFF),
\* ResetReason::SbiSpecific(n) as 0xE0000000 + min(n, 0x0FFFFFFF) and
\* ResetReason::PlatformSpecific(n) as 0xF0000000 + min(n, 0x0FFFFFFF); no sum
\* overflows 32 bits and each word lies in its documented range.
C20_SpecificCodesClamped ==
    op.name = "system_reset" =>
        /\ Len(calls) = 1
        /\ op.kind.variant = "PlatformSpecific" =>
              /\ TheCall.args[1] = Cast(Clamped(15, op.kind.n), W)
              /\ Within(TheCall.args[1], Hex(<<15, 0, 0, 0, 0, 0, 0, 0>>, 8), MaxWord(8))
        /\ op.reason.variant = "SbiSpecific" =>
              /\ TheCall.args[2] = Cast(Clamped(14, op.reason.n), W)
              /\ Within(TheCall.args[2], Hex(<<14, 0, 0, 0, 0, 0, 0, 0>>, 8),
                        Hex(<<14, 15, 15, 15, 15, 15, 15, 15>>, 8))
        /\ op.reason.variant = "PlatformSpecific" =>
              /\ TheCall.args[2] = Cast(Clamped(15, op.reason.n), W)
              /\ Within(TheCall.args[2], Hex(<<15, 0, 0, 0, 0, 0, 0, 0>>, 8), MaxWord(8))

\* PlatformSpecific(0xFFFFFFFF) for SbiSpecific(0x10000000), in a build with
\* overflow checks
C20_Witness ==
    /\ op.name = "system_reset" /\ overflow_checks
    /\ op.kind = [variant |-> "PlatformSpecific", n |-> MaxWord(8)]
    /\ op.reason = [variant |-> "SbiSpecific", n |-> Hex(<<1, 0, 0, 0, 0, 0, 0, 0>>, 8)]
    /\ TheCall.args = <<ZeroExtend(MaxWord(8), W),
                        ZeroExtend(Hex(<<14, 15, 15, 15, 15, 15, 15, 15>>, 8), W)>>

-----------------------------------------------------------------------------
\* hart_mask! and chains of with

\* the IDs of a listing: for hart_mask!(id1, ...) the first one is the base
ListedIds ==
    {op.ids[i] : i \in 1..Len(op.ids)}
        \cup (IF op.arm = "ids" THEN {op.first.base} ELSE {})

\* no two of the IDs are WORD_BITS or more apart
SpreadFits(ids) ==
    \A a, b \in ids : Le(a, b) => Lt(SubWrap(b, a), FromNat(WORD_BITS, W))

\* C21: hart_mask!(id1, ..., idn) creates a mask whose represented set
\* contains every listed ID, in whatever order they are listed, when no two
\* of them are WORD_BITS or more apart; hart_mask!(base: b, ids: ...) creates
\* a mask with base b that selects every listed ID in [b, b + WORD_BITS).
C21_MacroSelectsListed ==
    (op.name = "listing" /\ op.arm \in {"ids", "base"}) =>
        /\ ret.tag = "Ok"
        /\ (op.arm = "ids" /\ SpreadFits(ListedIds)) =>
               ListedIds \subseteq Selected(ret.val)
        /\ op.arm = "base" =>
               /\ ret.val.base = op.first.base
               /\ \A id \in ListedIds :
                      InWindow(op.first.base, id) => id \in Selected(ret.val)

-----------------------------------------------------------------------------
\* Execution contexts

\* the argument words of context h's call are the words of the mask it holds,
\* and once firmware has returned, its result is decoded from the status and
\* value left in its own a0 and a1
OwnCall(h) ==
    ctx[h].calls # <<>> =>
        /\ ctx[h].calls[1].args = <<ctx[h].mask.mask, ctx[h].mask.base>>
        /\ ctx[h].pc = "run" =>
               ctx[h].ret = map_drop(ecall_result(ctx[h].calls[1].a0, ctx[h].calls[1].a1))

\* C22: when two execution contexts build selector masks and issue calls in any
\* interleaving, a step of one context leaves the other's mask, argument words
\* and result as they were, and the typed result each context receives is
\* determined by its own arguments and the (status, value) pair firmware
\* returned to it.
C22_ContextsIndependent ==
    [][/\ \A h \in Contexts, g \in Contexts :
              (h # g /\ ctx'[h] # ctx[h]) => ctx'[g] = ctx[g]
       /\ \A h \in Contexts : OwnCall(h)']_vars

\* one context is inside its trap while the other, holding a different mask,
\* has received an error
C22_Witness ==
    \E h \in Contexts, g \in Contexts :
        /\ ctx[h].pc = "trap"
        /\ ctx[g].pc = "run" /\ ctx[g].calls # <<>> /\ ctx[g].ret.tag = "Err"
        /\ ctx[g].mask # ctx[h].mask

-----------------------------------------------------------------------------
\* Overflow in with

\* with evaluates self.base + usize::BITS (only when id >= self.base) and the
\* sum does not fit in a usize
BoundOverflows(self, id) ==
    Le(self.base, id) /\ AddOverflows(self.base, FromNat(WORD_BITS, W))

\* C23: for every base and every id in the native word range, including bases
\* within WORD_BITS of the maximum word value, with(id) completes without a
\* panic and without an arithmetic overflow, and returns a mask.
C23_WithNeverOverflows ==
    op.name = "with" =>
        /\ ret.tag = "Ok"
        /\ ret.val.kind = op.self.kind
        /\ ~BoundOverflows(op.self, op.id)

-----------------------------------------------------------------------------
\* Hart state

\* the HartState variant of each value word 0 .. 6
StateNames ==
    <<"Started", "Stopped", "StartRequestPending", "StopRequestPending",
      "Suspended", "SuspendPending", "ResumePending">>

\* C24: hart_state(h) issues one call, function ID 2 of the HSM extension with
\* argument h; on status 0 the value words 0 .. 6 decode to Started, Stopped,
\* StartRequestPending, StopRequestPending, Suspended, SuspendPending and
\* ResumePending, so a hart firmware reports as 0 reads as Started and one it
\* reports as 1 reads as Stopped; on a non-zero status the result is Err of
\* that status and the value word is not decoded.
C24_HartStateDecoded ==
    op.name = "hart_state" =>
        /\ Len(calls) = 1
        /\ TheCall.a7 = HSM_EXTENSION_ID
        /\ TheCall.a6 = FromNat(2, W)
        /\ TheCall.args = <<op.hart_id>>
        /\ \A k \in 0..6 :
               (TheCall.a0 = Zero(W) /\ TheCall.a1 = FromNat(k, W)) =>
                   ret = Ok(StateNames[k + 1])
        /\ TheCall.a0 # Zero(W) => ret = Err(SbiError_new(TheCall.a0))

\* firmware reports a hart as started, as stopped or as resuming, or refuses
\* with a value word that names a state
C24_Witness ==
    /\ op.name = "hart_state"
    /\ \/ TheCall.a0 = Zero(W) /\ TheCall.a1 = FromNat(6, W) /\ ret = Ok("ResumePending")
       \/ TheCall.a0 = Neg(3, W) /\ TheCall.a1 = FromNat(1, W) /\ ret.tag = "Err"

-----------------------------------------------------------------------------
\* Chains of with

RECURSIVE with_all(_, _)
\* m.with(ids[1]).with(ids[2]) ...: a panic ends the chain
with_all(r, ids) ==
    IF ids = <<>> \/ r.tag # "Ok" THEN r
    ELSE with_all(mask_with(r.val, Head(ids)), Tail(ids))

\* the orders in which the IDs of a sequence can be applied
Orders(ids) ==
    {[i \in 1..Len(ids) |-> ids[p[i]]] :
        p \in {q \in [1..Len(ids) -> 1..Len(ids)] :
                  \A i, j \in 1..Len(ids) : i # j => q[i] # q[j]}}

\* the bits set in a mask word
Bits(m) == {i \in 0..(WORD_BITS - 1) : BitSet(m.mask, i)}

\* C25: after any sequence of with(id_1) ... with(id_n) applied to new(base)
\* or from(id_0), the base is unchanged, no bit set along the way is cleared,
\* the represented set is the initial set united with exactly those id_k in
\* [base, base + WORD_BITS), and the result does not depend on the order of
\* the with calls.
C25_ChainAccumulates ==
    op.name = "listing" =>
        /\ ret.tag = "Ok"
        /\ ret.val.base = op.first.base
        /\ \A k \in 0..Len(op.ids) :
               Bits(with_all(Ok(op.first), SubSeq(op.ids, 1, k)).val) \subseteq Bits(ret.val)
        /\ Selected(ret.val) =
               Selected(op.first)
                   \cup {op.ids[k] : k \in {j \in 1..Len(op.ids) :
                                               InWindow(op.first.base, op.ids[j])}}
        /\ \A ids \in Orders(op.ids) : with_all(Ok(op.first), ids) = ret

-----------------------------------------------------------------------------
\* Positive status words

\* a status word above 0
Positive(n) == n # Zero(W) /\ ~is_negative(n)

\* C26: a positive status word is reported as Err, never as Ok, and distinct
\* non-zero status words always produce unequal error values, so the raw code
\* of any failing status can be told apart from every other.
C26_FailuresAllDistinct ==
    (op.name = "ecall" /\ TheCall.a0 # Zero(W)) =>
        /\ ret.tag = "Err"
        /\ \A n \in StatusSamples :
               (n # Zero(W) /\ n # TheCall.a0) => SbiError_new(n) # ret.val

\* C26, amended: a positive status word is reported as Err, never as Ok, and
\* its error carries no code: all positive status words produce the same error
\* value, which differs from the error of every negative status word; two
\* distinct non-zero status words produce unequal errors exactly when at least
\* one of them is negative.
C26_PositiveErrorsAlike ==
    (op.name = "ecall" /\ TheCall.a0 # Zero(W)) =>
        /\ ret.tag = "Err"
        /\ Positive(TheCall.a0) => ret.val = None
        /\ \A n \in StatusSamples :
               (n # Zero(W) /\ n # TheCall.a0) =>
                   ((SbiError_new(n) = ret.val) = (Positive(n) /\ Positive(TheCall.a0)))

\* firmware answered isize::MAX
C26_Witness ==
    /\ op.name = "ecall"
    /\ TheCall.a0 = [i \in 1..W |-> IF i = 1 THEN 7 ELSE 15]
    /\ ret = Err(None)

-----------------------------------------------------------------------------
\* Writable registers

\* C27: write_register can be invoked only for registers marked Writable: no
\* register that is Readable but not Writable reaches the write call
\* (function ID 3) through the typed API.
C27_OnlyWritableWritten ==
    \A i \in 1..Len(calls) :
        (calls[i].a7 = CPPC_EXTENSION_ID /\ calls[i].a6 = FromNat(3, W)) =>
            \A R \in Registers : Cast(R.ID, W) = calls[i].args[1] => R.writable

-----------------------------------------------------------------------------
\* PMU counter configuration flags

\* the eight flags by their short names
NamedFlags ==
    {"SKIP_MATCH", "CLEAR_VALUE", "AUTO_START", "SET_VUINH", "SET_VSINH",
     "SET_UINH", "SET_SINH", "SET_MINH"}

\* the word has exactly one bit set
SingleBit(a) == \E k \in 0..(WORD_BITS - 1) : a = ShlOne(k, W)

\* C28: each of the eight named flags occupies its own single bit: two
\* differently named flags have different values, OR-ing them yields a value
\* different from either, and the combined word tells which flags went into
\* it.
C28_FlagsOwnBits ==
    (op.name = "bitor" /\ op.self \in NamedFlags /\ op.rhs \in NamedFlags
     /\ op.self # op.rhs) =>
        LET a == CounterConfigurationFlags[op.self]
            b == CounterConfigurationFlags[op.rhs]
        IN  /\ SingleBit(a) /\ SingleBit(b)
            /\ a # b
            /\ ret.val # a /\ ret.val # b
            /\ \A f \in NamedFlags :
                   (BitAnd(ret.val, CounterConfigurationFlags[f]) # Zero(W))
                       = (f \in {op.self, op.rhs})

-----------------------------------------------------------------------------
\* PMU counter information

\* C29: counter_info decodes the success value word by its most significant
\* bit: Hardware { csr_number = word & 0xFFF, width = (word >> 12) & 0x3F }
\* exactly when that bit is clear, the word 0 included, and Firmware exactly
\* when it is set; on a non-zero status it returns Err.
C29_InfoByTopBit ==
    op.name = "counter_info" =>
        /\ Len(calls) = 1
        /\ TheCall.a0 # Zero(W) => ret.tag = "Err"
        /\ TheCall.a0 = Zero(W) =>
               /\ ret.tag = "Ok"
               /\ (ret.val.kind = "Hardware") = ~BitSet(TheCall.a1, WORD_BITS - 1)
               /\ (ret.val.kind = "Firmware") = BitSet(TheCall.a1, WORD_BITS - 1)
               /\ ret.val.kind = "Hardware" =>
                      /\ ret.val.csr_number = BitAnd(TheCall.a1, Hex(<<15, 15, 15>>, W))
                      /\ ret.val.width = BitAnd(ShrDigits(TheCall.a1, 3), Hex(<<3, 15>>, W))

-----------------------------------------------------------------------------
\* Display

\* C30: Display gives each of the nine named error kinds (codes -1 .. -9) its
\* own message and writes the fallback text "unknown error" only for values
\* that are none of the nine.
C30_NamedKindsHaveMessages ==
    op.name = "fmt" =>
        /\ (ret.val = "unknown error") = (\A k \in 1..9 : op.self # NamedKind(k))
        /\ \A j, k \in 1..9 :
               j # k => SbiError_fmt(NamedKind(j)) # SbiError_fmt(NamedKind(k))

====
